---------------------------- MODULE Spec2Model ----------------------------
(***************************************************************************)
(* Model of package sortedset (src/sortedset/sortedset.go): an AVL tree    *)
(* with ordered-set behaviour.  A *node is a record, the nil pointer is    *)
(* Nil.  The recursive helpers mutate nodes in place and hand the          *)
(* (possibly new) subtree root back to the caller; here they return the    *)
(* content of that subtree after the call.                                 *)
(*                                                                         *)
(* The comparator is compareInt of the package's tests: it type-asserts    *)
(* both arguments to int, which panics on a nil interface value.  A panic  *)
(* aborts the operation and the program.                                   *)
(*                                                                         *)
(* Every node carries the address it was allocated at, so that two         *)
(* pointers to the same node can be told from two equal nodes.  Addresses  *)
(* are only names: after each call the live nodes are renamed in traversal *)
(* order (Readdress), which keeps who shares what and nothing else.        *)
(***************************************************************************)
EXTENDS Integers, Sequences, FiniteSets, TLC

\* Values pushed into the set are the ints 1..MaxVal.
MaxVal == 6

Values == 1..MaxVal

\* With a comparator that looks only at a key, the values pushed are the
\* ints key * (MaxPayload + 1) + payload, key in 1..MaxKey, payload in
\* 0..MaxPayload.
MaxKey == 3

MaxPayload == 1

KeyedValues ==
    {k * (MaxPayload + 1) + p : k \in 1..MaxKey, p \in 0..MaxPayload}

\* Values pushed into a set and its clone.
MaxCloneVal == 2

CloneValues == 1..MaxCloneVal

\* Values pushed into a set on which the query methods are called.
MaxQueryVal == 2

QueryValues == 1..MaxQueryVal

\* A queue or stack gets at most MaxNodes nodes allocated, holding the ints
\* 1..MaxItem.
MaxNodes == 3

MaxItem == 2

Items == 1..MaxItem

\* Do is called with at most MaxProcs procedures.
MaxProcs == 2

\* The values pushed into the set that is then cloned.
MaxShapeVal == 3

ShapeValues == 1..MaxShapeVal

\* The values pushed into the sets whose subtrees are rotated.
MaxRotVal == 4

RotValues == 1..MaxRotVal

\* The nil interface{} value a cleared node holds (node.clear).
NilValue == 0

\* The nil *node.
Nil == [nil |-> TRUE]

VARIABLES
    root,       \* SortedSet.root
    panicked,   \* TRUE once a call has panicked (the run is over)
    lastOp,     \* name of the last method called
    lastArg,    \* its argument v (NilValue when it takes none)
    ret,        \* what it returned: "true", "false", "none", or "panic"
    pre,        \* root of the receiver as it was before the last call
    M,          \* the mathematical set run side by side with the SortedSet
    clone,      \* root of the SortedSet that Clone returned
    hasClone,   \* TRUE once Clone has been called
    comparator, \* the compare function the caller passes to every call
    kind,       \* "queue" or "stack": the package of the container below
    heap,       \* the nodes allocated so far: heap[a] is the node at address a
    coll,       \* the Queue (front, back, len) or the Stack (top, len)
    it,         \* the iterator Iterator() returned (NoIterator before)
    orig,       \* Slice() of the container when Iterator() was called
    given,      \* the values the iterator's Next calls returned, in order
    removedIdx, \* positions in orig of the values its Remove calls removed
    lastIterCall, \* the last call on the iterator that was a HasNext (ok:
                \* what it returned) or a Next or Remove that returned no error
    elems,      \* the Elements allocated so far: elems[a] is the one at a
    list,       \* the LinkedList (front, back, len)
    other,      \* a second LinkedList, the argument of PushBackList
    hm,         \* the HashMap (buckets, cap, len, loadFactor)
    rot         \* the last call of leftRotate or rightRotate made on its
                \* own: its argument n and the root it returned

\* The variables of the sorted set, of the queue or stack and its iterator.
setVars == <<root, pre, M, clone, hasClone, comparator>>

iteratorVars ==
    <<kind, heap, coll, it, orig, given, removedIdx, lastIterCall>>

listVars == <<elems, list, other>>

mapVars == <<hm>>

rotateVars == <<rot>>

\* The containers a SortedSet method does not touch.
otherContainers == <<iteratorVars, listVars, mapVars, rotateVars>>

vars ==
    <<panicked, lastOp, lastArg, ret, setVars, iteratorVars, listVars,
      mapVars, rotateVars>>

-----------------------------------------------------------------------------
\* type node, allocated at address a.
node(a, v, l, r, h, len) ==
    [addr |-> a, value |-> v, left |-> l, right |-> r, h |-> h, len |-> len]

\* The address of the node a Push allocates: no live node has it, the
\* live nodes are renamed 1, 2, ... after every call.
NewAddr == 0

\* func (n *node) clear(): the content of n afterwards.
clear(n) ==
    [n EXCEPT !.value = NilValue, !.left = Nil, !.right = Nil,
              !.h = 0, !.len = 0]

\* The addresses of the nodes reachable from n, in pre-order.
RECURSIVE Addrs(_)
Addrs(n) ==
    IF n = Nil THEN <<>>
    ELSE <<n.addr>> \o Addrs(n.left) \o Addrs(n.right)

\* The new name of address a: the place of its first occurrence in seq.
FirstIndex(seq, a) ==
    CHOOSE i \in 1..Len(seq) : seq[i] = a /\ \A j \in 1..(i - 1) : seq[j] # a

\* The tree n with every address renamed by its place in seq.
RECURSIVE Readdress(_, _)
Readdress(n, seq) ==
    IF n = Nil THEN Nil
    ELSE [n EXCEPT !.addr = FirstIndex(seq, n.addr),
                   !.left = Readdress(n.left, seq),
                   !.right = Readdress(n.right, seq)]

\* func height(n *node) int
height(n) == IF n = Nil THEN 0 ELSE n.h

\* func balance(n *node) int
balance(n) == IF n = Nil THEN 0 ELSE height(n.left) - height(n.right)

\* func length(n *node) int
length(n) == IF n = Nil THEN 0 ELSE n.len

\* func maxInt(a, b int) int
maxInt(a, b) == IF a > b THEN a ELSE b

\* The two assignments "n.h = 1 + maxInt(...)" and "n.len = 1 + length(...)
\* + length(...)" that every helper runs on a node whose children are final.
update(n) ==
    [n EXCEPT !.h = 1 + maxInt(height(n.left), height(n.right)),
              !.len = 1 + length(n.left) + length(n.right)]

\* A faulty leftRotate: it recomputes h and len of the new root before those
\* of n.
leftRotateUpdatesRootFirst(n) ==
    LET root0 == n.right
        tree == root0.left
        root1 == update([root0 EXCEPT !.left = [n EXCEPT !.right = tree]])
    IN  [root1 EXCEPT !.left = update(root1.left)]

\* func leftRotate(n *node) *node
leftRotate(n) ==
    LET root0 == n.right
        tree == root0.left
        n1 == update([n EXCEPT !.right = tree])
    IN  update([root0 EXCEPT !.left = n1])

\* A faulty rightRotate: "n.left = tree" written as "n.left = root.left", so
\* the left subtree of the new root also hangs under n.
rightRotateSharesLeft(n) ==
    LET root0 == n.left
        n1 == update([n EXCEPT !.left = root0.left])
    IN  update([root0 EXCEPT !.right = n1])

\* func rightRotate(n *node) *node
rightRotate(n) ==
    LET root0 == n.left
        tree == root0.right
        n1 == update([n EXCEPT !.left = tree])
    IN  update([root0 EXCEPT !.right = n1])

\* func min(n *node) *node
RECURSIVE min(_)
min(n) ==
    IF n = Nil THEN Nil
    ELSE IF n.left # Nil THEN min(n.left)
    ELSE n

\* compareInt: v1.(int) and v2.(int) panic on a nil interface value.
comparePanics(v1, v2) == v1 = NilValue \/ v2 = NilValue

\* The key of a value under the comparator that looks only at a key.
Key(v) == v \div (MaxPayload + 1)

\* compareInt: int1 - int2.  compareKey: the same on the keys.
compare(v1, v2) ==
    IF comparator = "compareInt" THEN v1 - v2 ELSE Key(v1) - Key(v2)

-----------------------------------------------------------------------------
\* func containsRecursive: "true", "false", or "panic".
RECURSIVE containsRecursive(_, _)
containsRecursive(v, n) ==
    IF n = Nil THEN "false"
    ELSE IF comparePanics(v, n.value) THEN "panic"
    ELSE LET diff == compare(v, n.value)
         IN  IF diff < 0 THEN containsRecursive(v, n.left)
             ELSE IF diff > 0 THEN containsRecursive(v, n.right)
             ELSE "true"

\* func (s *SortedSet) Contains
Contains(v, s) == containsRecursive(v, s)

\* func (s *SortedSet) IsEmpty
IsEmpty(s) == s = Nil

\* func (s *SortedSet) Len (Len is taken by Sequences)
SortedSetLen(s) == IF IsEmpty(s) THEN 0 ELSE s.len

\* func sliceRecursive: the values appended, in order.
RECURSIVE sliceRecursive(_)
sliceRecursive(n) ==
    IF n = Nil THEN <<>>
    ELSE sliceRecursive(n.left) \o <<n.value>> \o sliceRecursive(n.right)

\* func (s *SortedSet) Slice
Slice(s) == sliceRecursive(s)

-----------------------------------------------------------------------------
\* A faulty rebalancing step of pushRecursive: in the left-right and the
\* right-left case it makes the single rotation of the other case.
pushRebalanceSingleRotation(v, n0) ==
    LET n == update(n0)
        b == balance(n)
    IN  IF b > 1 THEN
            IF comparePanics(v, n.left.value)
            THEN [n |-> n, panic |-> TRUE, unbalanced |-> TRUE]
            ELSE [n |-> rightRotate(n), panic |-> FALSE, unbalanced |-> TRUE]
        ELSE IF b < -1 THEN
            IF comparePanics(v, n.right.value)
            THEN [n |-> n, panic |-> TRUE, unbalanced |-> TRUE]
            ELSE [n |-> leftRotate(n), panic |-> FALSE, unbalanced |-> TRUE]
        ELSE [n |-> n, panic |-> FALSE, unbalanced |-> FALSE]

\* pushRecursive, lines 258-279: update n, then rebalance by comparing v
\* with the child's value.  Result: [n: subtree root, panic,
\* unbalanced: the balance was above 1 or below -1].
pushRebalance(v, n0) ==
    LET n == update(n0)
        b == balance(n)
    IN  IF b > 1 THEN
            IF comparePanics(v, n.left.value)
            THEN [n |-> n, panic |-> TRUE, unbalanced |-> TRUE]
            ELSE IF compare(v, n.left.value) < 0
                 THEN [n |-> rightRotate(n), panic |-> FALSE,
                       unbalanced |-> TRUE]
                 ELSE [n |-> rightRotate(
                                 [n EXCEPT !.left = leftRotate(n.left)]),
                       panic |-> FALSE, unbalanced |-> TRUE]
        ELSE IF b < -1 THEN
            IF comparePanics(v, n.right.value)
            THEN [n |-> n, panic |-> TRUE, unbalanced |-> TRUE]
            ELSE IF compare(v, n.right.value) > 0
                 THEN [n |-> leftRotate(n), panic |-> FALSE,
                       unbalanced |-> TRUE]
                 ELSE [n |-> leftRotate(
                                 [n EXCEPT !.right = rightRotate(n.right)]),
                       panic |-> FALSE, unbalanced |-> TRUE]
        ELSE [n |-> n, panic |-> FALSE, unbalanced |-> FALSE]

\* A faulty pushRecursive for case diff == 0: the stored value is kept and
\* the pushed one dropped.
pushEqualKeepsOld(v, n) == n

\* pushRecursive, lines 253-255 (case diff == 0): n.value = v; return n.
pushEqual(v, n) == [n EXCEPT !.value = v]

\* func pushRecursive.  On a panic the result is the subtree as the panic
\* left it.  rebalanced lists the nodes of the insertion path whose balance
\* was found above 1 or below -1, deepest first: the subtree before the
\* insertion (before), the node with h and len recomputed as the balance
\* test saw it (n), and what the rotations returned (after).
RECURSIVE pushRecursive(_, _)
pushRecursive(v, n) ==
    IF n = Nil
    THEN [n |-> node(NewAddr, v, Nil, Nil, 1, 1), panic |-> FALSE,
          rebalanced |-> <<>>]
    ELSE IF comparePanics(v, n.value)
    THEN [n |-> n, panic |-> TRUE, rebalanced |-> <<>>]
    ELSE LET diff == compare(v, n.value)
         IN  IF diff = 0
             THEN [n |-> pushEqual(v, n), panic |-> FALSE,
                   rebalanced |-> <<>>]
             ELSE LET r == IF diff < 0 THEN pushRecursive(v, n.left)
                                       ELSE pushRecursive(v, n.right)
                      n1 == IF diff < 0 THEN [n EXCEPT !.left = r.n]
                                        ELSE [n EXCEPT !.right = r.n]
                      b == pushRebalance(v, n1)
                  IN  IF r.panic
                      THEN [n |-> n1, panic |-> TRUE,
                            rebalanced |-> r.rebalanced]
                      ELSE [n |-> b.n, panic |-> b.panic,
                            rebalanced |->
                                IF b.unbalanced
                                THEN Append(r.rebalanced,
                                            [before |-> n, n |-> update(n1),
                                             after |-> b.n])
                                ELSE r.rebalanced]

-----------------------------------------------------------------------------
\* removeRebalance with the final "return n, removed" written as
\* "return n, false": a Remove that changed the set reports false.
removeRebalanceReturnsFalse(n0, removed) ==
    LET n == update(n0)
        balanceTreeNode == balance(n)
    IN  IF balanceTreeNode > 1 THEN
            IF balance(n.left) >= 0
            THEN [n |-> rightRotate(n), removed |-> removed, panic |-> FALSE]
            ELSE [n |-> rightRotate([n EXCEPT !.left = leftRotate(n.left)]),
                  removed |-> removed, panic |-> FALSE]
        ELSE IF balanceTreeNode < -1 THEN
            IF balance(n.right) <= 0
            THEN [n |-> leftRotate(n), removed |-> removed, panic |-> FALSE]
            ELSE [n |-> leftRotate([n EXCEPT !.right = rightRotate(n.right)]),
                  removed |-> removed, panic |-> FALSE]
        ELSE [n |-> n, removed |-> FALSE, panic |-> FALSE]

\* removeRecursive, lines 330-356: n is not nil; update it, then rebalance
\* by the sign of the child's balance.
removeRebalance(n0, removed) ==
    LET n == update(n0)
        balanceTreeNode == balance(n)
    IN  IF balanceTreeNode > 1 THEN
            IF balance(n.left) >= 0
            THEN [n |-> rightRotate(n), removed |-> removed, panic |-> FALSE]
            ELSE [n |-> rightRotate([n EXCEPT !.left = leftRotate(n.left)]),
                  removed |-> removed, panic |-> FALSE]
        ELSE IF balanceTreeNode < -1 THEN
            IF balance(n.right) <= 0
            THEN [n |-> leftRotate(n), removed |-> removed, panic |-> FALSE]
            ELSE [n |-> leftRotate([n EXCEPT !.right = rightRotate(n.right)]),
                  removed |-> removed, panic |-> FALSE]
        ELSE [n |-> n, removed |-> removed, panic |-> FALSE]

\* removeRecursive, lines 308-322: the matching node n has at most one
\* child.  No child: n is cleared and nil is returned.  One child temp:
\* n takes temp's value and temp is cleared; n's pointer to temp stays.
removeFewChildren(n) ==
    LET temp == IF n.left = Nil THEN n.right ELSE n.left
    IN  IF temp = Nil
        THEN [n |-> Nil, removed |-> TRUE, panic |-> FALSE]
        ELSE removeRebalance(
                 IF n.left = Nil
                 THEN [n EXCEPT !.value = temp.value, !.right = clear(temp)]
                 ELSE [n EXCEPT !.value = temp.value, !.left = clear(temp)],
                 TRUE)

\* func removeRecursive.  Result: [n: subtree root, removed, panic]; on a
\* panic n is the subtree as the panic left it.
RECURSIVE removeRecursive(_, _)
removeRecursive(v, n) ==
    IF n = Nil THEN [n |-> Nil, removed |-> FALSE, panic |-> FALSE]
    ELSE IF comparePanics(v, n.value)
         THEN [n |-> n, removed |-> FALSE, panic |-> TRUE]
    ELSE LET diff == compare(v, n.value)
         IN  IF diff < 0 THEN
                 LET r == removeRecursive(v, n.left)
                     n1 == [n EXCEPT !.left = r.n]
                 IN  IF r.panic
                     THEN [n |-> n1, removed |-> FALSE, panic |-> TRUE]
                     ELSE removeRebalance(n1, r.removed)
             ELSE IF diff > 0 THEN
                 LET r == removeRecursive(v, n.right)
                     n1 == [n EXCEPT !.right = r.n]
                 IN  IF r.panic
                     THEN [n |-> n1, removed |-> FALSE, panic |-> TRUE]
                     ELSE removeRebalance(n1, r.removed)
             ELSE IF n.left = Nil \/ n.right = Nil THEN removeFewChildren(n)
             ELSE \* two children
                 LET temp == min(n.right)
                     n1 == [n EXCEPT !.value = temp.value]
                     r == removeRecursive(temp.value, n1.right)
                     n2 == [n1 EXCEPT !.right = r.n]
                 IN  IF r.panic
                     THEN [n |-> n2, removed |-> TRUE, panic |-> TRUE]
                     ELSE removeRebalance(n2, TRUE)

\* A faulty cloneRecursive: the copy of a node is built like a new leaf, its
\* cached height and size are not copied.
RECURSIVE cloneRecursiveDropsCache(_)
cloneRecursiveDropsCache(nS) ==
    IF nS = Nil THEN Nil
    ELSE LET left == cloneRecursiveDropsCache(nS.left)
             right == cloneRecursiveDropsCache(nS.right)
         IN  node(0 - nS.addr, nS.value, left, right, 1, 1)

\* A faulty cloneRecursive: a shallow copy, the clone's root pointer is the
\* original's.
cloneRecursiveShallow(nS) == nS

-----------------------------------------------------------------------------
\* func cloneRecursive: every node of the copy is a new node.
RECURSIVE cloneRecursive(_)
cloneRecursive(nS) ==
    IF nS = Nil THEN Nil
    ELSE LET left == cloneRecursive(nS.left)
             right == cloneRecursive(nS.right)
         IN  node(0 - nS.addr, nS.value, left, right, nS.h, nS.len)

\* func (s *SortedSet) Max: the value returned (NilValue for nil).
RECURSIVE maxValue(_)
maxValue(n) == IF n.right # Nil THEN maxValue(n.right) ELSE n.value

Max(s) == IF IsEmpty(s) THEN NilValue ELSE maxValue(s)

\* func (s *SortedSet) Min: the value returned (NilValue for nil).
Min(s) == IF IsEmpty(s) THEN NilValue ELSE min(s).value

\* func NewBySlice: Push of every value of the slice, in its order, into a
\* new set.  The result is [n, panic] like pushRecursive's.
RECURSIVE pushAll(_, _)
pushAll(values, s) ==
    IF values = <<>> THEN [n |-> s, panic |-> FALSE]
    ELSE LET r == pushRecursive(Head(values), s)
         IN  IF r.panic THEN [n |-> r.n, panic |-> TRUE]
             ELSE pushAll(Tail(values), r.n)

NewBySlice(values) == pushAll(values, Nil)

\* The calls procedure 1, ..., procedure k on value v, in that order
\* (the loop of doRecursive).
RECURSIVE procedureCalls(_, _, _)
procedureCalls(v, i, k) ==
    IF i > k THEN <<>>
    ELSE <<[procedure |-> i, v |-> v]>> \o procedureCalls(v, i + 1, k)

\* func doRecursive, for k procedures: the calls it makes, in order.
RECURSIVE doRecursive(_, _)
doRecursive(n, k) ==
    IF n = Nil THEN <<>>
    ELSE doRecursive(n.left, k) \o procedureCalls(n.value, 1, k)
             \o doRecursive(n.right, k)

\* func (s *SortedSet) Do
Do(s, k) == doRecursive(s, k)

\* The decimal digits of the natural number d, as a string (a sequence of
\* characters).
RECURSIVE Digits(_)
Digits(d) ==
    LET digit == <<"0", "1", "2", "3", "4", "5", "6", "7", "8", "9">>
    IN  IF d < 10 THEN <<digit[d + 1]>>
        ELSE Digits(d \div 10) \o <<digit[(d % 10) + 1]>>

\* fmt.Sprintf("%v", v) of an int or of the nil interface value.
Sprintf(v) ==
    IF v = NilValue THEN <<"<", "n", "i", "l", ">">> ELSE Digits(v)

\* func stringRecursive
RECURSIVE stringRecursive(_)
stringRecursive(n) ==
    IF n = Nil THEN <<>>
    ELSE stringRecursive(n.left) \o Sprintf(n.value) \o <<" ">>
             \o stringRecursive(n.right)

\* func (s *SortedSet) String
String(s) ==
    IF IsEmpty(s) THEN <<"[", "]">>
    ELSE LET str == <<"[">> \o stringRecursive(s)
         IN  SubSeq(str, 1, Len(str) - 1) \o <<"]">>

-----------------------------------------------------------------------------
\* The mathematical set after Push(v) and after Remove(v).
SetPush(S, v) == {w \in S : compare(w, v) # 0} \cup {v}

SetRemove(S, v) == {w \in S : compare(w, v) # 0}

-----------------------------------------------------------------------------
(* Packages queue and stack with their iterator (src/unnamed/part_005,     *)
(* src/unnamed/part_006): singly-linked nodes in a heap.  heap[a] is the   *)
(* node allocated at address a, NilPtr the nil *node.  A removed node is   *)
(* cleared and stays in the heap as garbage.  A call that dereferences a   *)
(* nil pointer panics; the result then carries panic = TRUE and the state  *)
(* as it was before the call.                                              *)

\* The nil *node of a queue or stack.
NilPtr == 0

\* The packages modelled.
Kinds == {"queue", "stack"}

\* const ErrorIteratorNext, ErrorIteratorHasNext, ErrorIteratorRemove
ErrorIteratorNext == "iterator: use HasNext method before Next"

ErrorIteratorHasNext == "iterator: HasNext method returned false on last call"

ErrorIteratorRemove == "iterator: use Next method before Remove"

\* const iteratorCommandHasNext, iteratorCommandNext, iteratorCommandRemove
iteratorCommandHasNext == 0

iteratorCommandNext == 1

iteratorCommandRemove == 2

\* func (n *node) clear, on the node at address n.
clearNode(h, n) == [h EXCEPT ![n] = [value |-> NilValue, next |-> NilPtr]]

\* func New of package queue and of package stack.
NewContainer(k) ==
    IF k = "queue" THEN [front |-> NilPtr, back |-> NilPtr, len |-> 0]
    ELSE [top |-> NilPtr, len |-> 0]

\* The front node of the queue, the top node of the stack.
first(c) == IF kind = "queue" THEN c.front ELSE c.top

\* func (q *Queue) Push
queuePush(h, q, v) ==
    LET n == Len(h) + 1
        h1 == Append(h, [value |-> v, next |-> NilPtr])
    IN  IF q.len = 0
        THEN [heap |-> h1,
              coll |-> [q EXCEPT !.front = n, !.back = n, !.len = q.len + 1],
              panic |-> FALSE]
        ELSE IF q.back = NilPtr
        THEN [heap |-> h, coll |-> q, panic |-> TRUE]
        ELSE [heap |-> [h1 EXCEPT ![q.back].next = n],
              coll |-> [q EXCEPT !.back = n, !.len = q.len + 1],
              panic |-> FALSE]

\* func (s *Stack) Push
stackPush(h, st, v) ==
    LET n == Len(h) + 1
    IN  [heap |-> Append(h, [value |-> v, next |-> st.top]),
         coll |-> [st EXCEPT !.top = n, !.len = st.len + 1],
         panic |-> FALSE]

\* func (q *Queue) Get; v is the value returned.
queueGet(h, q) ==
    IF q.len = 0
    THEN [heap |-> h, coll |-> q, v |-> NilValue, panic |-> FALSE]
    ELSE IF q.front = NilPtr
    THEN [heap |-> h, coll |-> q, v |-> NilValue, panic |-> TRUE]
    ELSE LET n == q.front
         IN  [heap |-> clearNode(h, n),
              coll |-> [q EXCEPT !.back = IF q.back = n THEN NilPtr
                                          ELSE q.back,
                                 !.front = h[n].next,
                                 !.len = q.len - 1],
              v |-> h[n].value,
              panic |-> FALSE]

\* The loop of func (q *Queue) GetIf; the condition is true of the values
\* in C, values is the slice built so far.  q.Get() returns nil and removes
\* nothing when q.len is 0: the loop then meets the same front node again
\* and again (hang).
RECURSIVE getIfLoop(_, _, _, _, _)
getIfLoop(h, q, C, values, fuel) ==
    IF q.front = NilPtr \/ h[q.front].value \notin C
    THEN [heap |-> h, coll |-> q, v |-> values, panic |-> FALSE,
          hang |-> FALSE]
    ELSE IF fuel = 0
    THEN [heap |-> h, coll |-> q, v |-> values, panic |-> FALSE,
          hang |-> TRUE]
    ELSE LET r == queueGet(h, q)
         IN  getIfLoop(r.heap, r.coll, C, Append(values, r.v), fuel - 1)

\* func (q *Queue) GetIf
queueGetIf(h, q, C) == getIfLoop(h, q, C, <<>>, Len(h) + 1)

\* func (q *Queue) Do: Get until IsEmpty; the procedures get the values
\* and do not touch the queue.
RECURSIVE queueDo(_, _, _)
queueDo(h, q, fuel) ==
    IF q.len = 0
    THEN [heap |-> h, coll |-> q, panic |-> FALSE, hang |-> FALSE]
    ELSE IF fuel = 0
    THEN [heap |-> h, coll |-> q, panic |-> FALSE, hang |-> TRUE]
    ELSE LET r == queueGet(h, q)
         IN  IF r.panic
             THEN [heap |-> h, coll |-> q, panic |-> TRUE, hang |-> FALSE]
             ELSE queueDo(r.heap, r.coll, fuel - 1)

\* func (q *Queue) RemoveAll
queueRemoveAll(q) == [q EXCEPT !.front = NilPtr, !.back = NilPtr, !.len = 0]

\* func (s *Stack) Get
stackGet(h, st) ==
    IF st.len = 0
    THEN [heap |-> h, coll |-> st, v |-> NilValue, panic |-> FALSE]
    ELSE IF st.top = NilPtr
    THEN [heap |-> h, coll |-> st, v |-> NilValue, panic |-> TRUE]
    ELSE LET n == st.top
         IN  [heap |-> clearNode(h, n),
              coll |-> [st EXCEPT !.top = h[n].next, !.len = st.len - 1],
              v |-> h[n].value,
              panic |-> FALSE]

\* func (q *Queue) removeNode
queueRemoveNode(h, q, prev, n) ==
    LET failed == [heap |-> h, coll |-> q, panic |-> TRUE]
        done(h1, q1) ==
            [heap |-> clearNode(h1, n),
             coll |-> [q1 EXCEPT !.len = q.len - 1],
             panic |-> FALSE]
    IN  IF q.front = n
        THEN IF q.back = n
             THEN IF n = NilPtr THEN failed
                  ELSE done(h, [q EXCEPT !.front = NilPtr, !.back = NilPtr])
             ELSE IF n = NilPtr THEN failed
                  ELSE done(h, [q EXCEPT !.front = h[n].next])
        ELSE IF q.back = n
        THEN IF prev = NilPtr \/ n = NilPtr THEN failed
             ELSE done([h EXCEPT ![prev].next = NilPtr],
                       [q EXCEPT !.back = prev])
        ELSE IF prev = NilPtr \/ n = NilPtr THEN failed
             ELSE done([h EXCEPT ![prev].next = h[n].next], q)

\* func (s *Stack) removeNode
stackRemoveNode(h, st, prev, n) ==
    LET failed == [heap |-> h, coll |-> st, panic |-> TRUE]
        done(h1, s1) ==
            [heap |-> clearNode(h1, n),
             coll |-> [s1 EXCEPT !.len = st.len - 1],
             panic |-> FALSE]
    IN  IF st.top = n
        THEN IF n = NilPtr THEN failed
             ELSE done(h, [st EXCEPT !.top = h[n].next])
        ELSE IF prev = NilPtr \/ n = NilPtr THEN failed
             ELSE done([h EXCEPT ![prev].next = h[n].next], st)

\* The method of the package the container belongs to.
push(h, c, v) ==
    IF kind = "queue" THEN queuePush(h, c, v) ELSE stackPush(h, c, v)

get(h, c) == IF kind = "queue" THEN queueGet(h, c) ELSE stackGet(h, c)

removeNode(h, c, prev, n) ==
    IF kind = "queue" THEN queueRemoveNode(h, c, prev, n)
    ELSE stackRemoveNode(h, c, prev, n)

\* The values of the nodes linked from node n on (the loop of Slice).
RECURSIVE valuesFrom(_, _)
valuesFrom(h, n) ==
    IF n = NilPtr THEN <<>> ELSE <<h[n].value>> \o valuesFrom(h, h[n].next)

\* func (q *Queue) Slice, func (s *Stack) Slice
containerSlice(h, c) == valuesFrom(h, first(c))

\* The value of it before Iterator() is called.
NoIterator == [none |-> TRUE]

\* func (q *Queue) Iterator, func (s *Stack) Iterator: the iterator returned.
newIterator ==
    [prev |-> NilPtr, this |-> NilPtr, index |-> 0 - 1, lastCommand |-> 0 - 1,
     lastHasNext |-> FALSE]

\* A new, empty container of package k, without iterator.
IteratorInit(k) ==
    /\ kind = k
    /\ heap = <<>>
    /\ coll = NewContainer(k)
    /\ it = NoIterator
    /\ orig = <<>>
    /\ given = <<>>
    /\ removedIdx = {}
    /\ lastIterCall = [op |-> "none", ok |-> FALSE]

-----------------------------------------------------------------------------
(* Package linkedlist (src/linkedlist/linkedlist.go): a doubly-linked list.
   Elements live in elems, addressed from 1; NilPtr is the nil *Element. One
   LinkedList exists, at address ListAddr, so parent is ListAddr or NilPtr.
   A method is an operator from elems E, the list l and its arguments to
   ListResult: the new elems and list, what it returned, whether it panicked
   on a nil pointer, and whether it runs for ever. *)
MaxElems == 3

ListAddr == 1

\* type Element
Element(v, n, p, par) == [value |-> v, next |-> n, prev |-> p, parent |-> par]

\* func (e *Element) clear
elementClear(E, e) ==
    [E EXCEPT ![e] = Element(NilValue, NilPtr, NilPtr, NilPtr)]

\* func New (linkedlist): the zero LinkedList.
NewList == [front |-> NilPtr, back |-> NilPtr, len |-> 0]

ListResult(E, l, r) ==
    [elems |-> E, list |-> l, ret |-> r, panic |-> FALSE, hang |-> FALSE]

\* A dereference of nil after the heap became E and the list l.
ListPanic(E, l) ==
    [elems |-> E, list |-> l, ret |-> "panic", panic |-> TRUE, hang |-> FALSE]

\* A loop that visits the same elements again and again without a change.
ListHang(E, l) ==
    [elems |-> E, list |-> l, ret |-> "hang", panic |-> FALSE, hang |-> TRUE]

\* Steps after which a loop over the elements of E, each of which it can
\* remove once, has visited an element twice with nothing changed in between.
LoopBound(E) == (Len(E) + 1) * (Len(E) + 1)

\* func (l *LinkedList) Contains
ListContains(E, e) == e # NilPtr /\ E[e].parent = ListAddr

\* func (l *LinkedList) IsEmpty
ListIsEmpty(l) == l.len = 0

\* func (l *LinkedList) Front
Front(l) == IF ListIsEmpty(l) THEN NilPtr ELSE l.front

\* func (l *LinkedList) Back
Back(l) == IF ListIsEmpty(l) THEN NilPtr ELSE l.back

\* func (l *LinkedList) unlink, statement by statement.
unlink(E, l, e) ==
    LET linked ==
            IF E[e].prev = NilPtr
            THEN IF E[e].next = NilPtr
                 THEN [elems |-> E,
                       list |-> [l EXCEPT !.front = NilPtr, !.back = NilPtr]]
                 ELSE [elems |-> [E EXCEPT ![E[e].next].prev = NilPtr],
                       list |-> [l EXCEPT !.front = E[e].next]]
            ELSE IF E[e].next # NilPtr
                 THEN LET E1 == [E EXCEPT ![E[e].prev].next = E[e].next]
                      IN  [elems |->
                               [E1 EXCEPT ![E1[e].next].prev = E1[e].prev],
                           list |-> l]
                 ELSE [elems |-> [E EXCEPT ![E[e].prev].next = NilPtr],
                       list |-> [l EXCEPT !.back = E[e].prev]]
        E2 == [linked.elems EXCEPT ![e].next = NilPtr]
    IN  [elems |-> [E2 EXCEPT ![e].prev = NilPtr], list |-> linked.list]

\* func (l *LinkedList) MoveAfter
MoveAfter(E, l, e, mark) ==
    IF ~ListContains(E, e) \/ ~ListContains(E, mark)
    THEN ListResult(E, l, FALSE)
    ELSE IF e = mark
    THEN ListResult(E, l, TRUE)
    ELSE LET u  == unlink(E, l, e)
             E1 == u.elems
             l1 == IF E1[mark].next = NilPtr
                   THEN [u.list EXCEPT !.back = e]
                   ELSE u.list
             E2 == IF E1[mark].next = NilPtr
                   THEN E1
                   ELSE [E1 EXCEPT ![E1[mark].next].prev = e]
             E3 == [E2 EXCEPT ![e].next = E2[mark].next]
             E4 == [E3 EXCEPT ![e].prev = mark]
             E5 == [E4 EXCEPT ![mark].next = e]
         IN  ListResult(E5, l1, TRUE)

\* func (l *LinkedList) MoveBefore
MoveBefore(E, l, e, mark) ==
    IF ~ListContains(E, e) \/ ~ListContains(E, mark)
    THEN ListResult(E, l, FALSE)
    ELSE IF e = mark
    THEN ListResult(E, l, TRUE)
    ELSE LET u  == unlink(E, l, e)
             E1 == u.elems
             l1 == IF E1[mark].prev = NilPtr
                   THEN [u.list EXCEPT !.front = e]
                   ELSE u.list
             E2 == IF E1[mark].prev = NilPtr
                   THEN E1
                   ELSE [E1 EXCEPT ![E1[mark].prev].next = e]
             E3 == [E2 EXCEPT ![e].prev = E2[mark].prev]
             E4 == [E3 EXCEPT ![e].next = mark]
             E5 == [E4 EXCEPT ![mark].prev = e]
         IN  ListResult(E5, l1, TRUE)

\* func (l *LinkedList) MoveToBack
MoveToBack(E, l, e) == MoveAfter(E, l, e, l.back)

\* func (l *LinkedList) MoveToFront
MoveToFront(E, l, e) == MoveAfter(E, l, e, l.front)

\* func (l *LinkedList) PushAfter: returns the new element, or nil.
PushAfter(E, l, v, mark) ==
    IF ~ListContains(E, mark)
    THEN ListResult(E, l, NilPtr)
    ELSE LET e  == Len(E) + 1
             E1 == Append(E, Element(v, E[mark].next, mark, ListAddr))
             E2 == [E1 EXCEPT ![mark].next = e]
         IN  IF mark = l.back
             THEN ListResult(E2, [l EXCEPT !.back = e, !.len = @ + 1], e)
             ELSE IF E2[e].next = NilPtr
             THEN ListPanic(E2, l)
             ELSE ListResult([E2 EXCEPT ![E2[e].next].prev = e],
                             [l EXCEPT !.len = @ + 1], e)

\* func (l *LinkedList) PushBefore: returns the new element, or nil.
PushBefore(E, l, v, mark) ==
    IF ~ListContains(E, mark)
    THEN ListResult(E, l, NilPtr)
    ELSE LET e  == Len(E) + 1
             E1 == Append(E, Element(v, mark, E[mark].prev, ListAddr))
             E2 == [E1 EXCEPT ![mark].prev = e]
         IN  IF mark = l.front
             THEN ListResult(E2, [l EXCEPT !.front = e, !.len = @ + 1], e)
             ELSE IF E2[e].prev = NilPtr
             THEN ListPanic(E2, l)
             ELSE ListResult([E2 EXCEPT ![E2[e].prev].next = e],
                             [l EXCEPT !.len = @ + 1], e)

\* func (l *LinkedList) PushBack
PushBack(E, l, v) ==
    LET e  == Len(E) + 1
        E1 == Append(E, Element(v, NilPtr, l.back, ListAddr))
    IN  IF ListIsEmpty(l)
        THEN ListResult(E1, [front |-> e, back |-> e, len |-> l.len + 1],
                        "none")
        ELSE IF l.back = NilPtr
        THEN ListPanic(E1, l)
        ELSE ListResult([E1 EXCEPT ![l.back].next = e],
                        [l EXCEPT !.back = e, !.len = @ + 1], "none")

\* func (l *LinkedList) PushFront
PushFront(E, l, v) ==
    LET e  == Len(E) + 1
        E1 == Append(E, Element(v, l.front, NilPtr, ListAddr))
    IN  IF ListIsEmpty(l)
        THEN ListResult(E1, [front |-> e, back |-> e, len |-> l.len + 1],
                        "none")
        ELSE IF l.front = NilPtr
        THEN ListPanic(E1, l)
        ELSE ListResult([E1 EXCEPT ![l.front].prev = e],
                        [l EXCEPT !.front = e, !.len = @ + 1], "none")

\* The loop of func (l *LinkedList) Remove from element e on: the first
\* element holding v, NilPtr when there is none, -1 when the loop never ends.
RECURSIVE firstMatch(_, _, _, _)
firstMatch(E, e, v, fuel) ==
    IF e = NilPtr THEN NilPtr
    ELSE IF E[e].value = v THEN e
    ELSE IF fuel = 0 THEN 0 - 1
    ELSE firstMatch(E, E[e].next, v, fuel - 1)

\* func (l *LinkedList) Remove
ListRemove(E, l, v) ==
    LET e == firstMatch(E, l.front, v, LoopBound(E))
    IN  IF e = NilPtr THEN ListResult(E, l, FALSE)
        ELSE IF e = 0 - 1 THEN ListHang(E, l)
        ELSE LET u == unlink(E, l, e)
             IN  ListResult(elementClear(u.elems, e),
                            [u.list EXCEPT !.len = @ - 1], TRUE)

\* func (l *LinkedList) RemoveAll
ListRemoveAll(E, l) == ListResult(E, NewList, "none")

\* func (l *LinkedList) RemoveElement: returns (v, ok).
RemoveElement(E, l, e) ==
    IF ~ListContains(E, e)
    THEN ListResult(E, l, [v |-> NilValue, ok |-> FALSE])
    ELSE LET u == unlink(E, l, e)
         IN  ListResult(elementClear(u.elems, e),
                        [u.list EXCEPT !.len = @ - 1],
                        [v |-> E[e].value, ok |-> TRUE])

\* The first loop of func (l *LinkedList) RemoveFrom, with start at element
\* start and count removals made; then its last statements.
RECURSIVE removeFromLoop(_, _, _, _, _, _)
removeFromLoop(E, l, start, end, count, fuel) ==
    IF start # end /\ start # NilPtr
    THEN IF fuel = 0
         THEN ListHang(E, l)
         ELSE LET r == RemoveElement(E, l, start)
              IN  removeFromLoop(r.elems, r.list, E[start].next, end,
                                 count + 1, fuel - 1)
    ELSE IF start = end
    THEN LET r == RemoveElement(E, l, start)
         IN  ListResult(r.elems, r.list, count + 1)
    ELSE ListResult(E, l, count)

\* func (l *LinkedList) RemoveFrom
RemoveFrom(E, l, start, end) ==
    IF ~ListContains(E, start) \/ ~ListContains(E, end)
    THEN ListResult(E, l, 0)
    ELSE removeFromLoop(E, l, start, end, 0, LoopBound(E))

\* The loop of func (l *LinkedList) RemoveIf at element e, with count
\* removals made; the condition is true of the values in C.
RECURSIVE removeIfLoop(_, _, _, _, _, _)
removeIfLoop(E, l, e, C, count, fuel) ==
    IF e = NilPtr THEN ListResult(E, l, count)
    ELSE IF fuel = 0 THEN ListHang(E, l)
    ELSE IF E[e].value \in C
    THEN LET u == unlink(E, l, e)
         IN  removeIfLoop(elementClear(u.elems, e),
                          [u.list EXCEPT !.len = @ - 1], E[e].next, C,
                          count + 1, fuel - 1)
    ELSE removeIfLoop(E, l, E[e].next, C, count, fuel - 1)

\* func (l *LinkedList) RemoveIf
RemoveIf(E, l, C) == removeIfLoop(E, l, l.front, C, 0, LoopBound(E))

\* func (l *LinkedList) Swap
Swap(E, l, a, b) ==
    IF ~ListContains(E, a) \/ ~ListContains(E, b)
    THEN ListResult(E, l, FALSE)
    ELSE LET E1 == [E EXCEPT ![a].value = E[b].value]
         IN  ListResult([E1 EXCEPT ![b].value = E[a].value], l, TRUE)

\* The elements met from element e on by following next, at most fuel of them.
RECURSIVE elementsFrom(_, _, _)
elementsFrom(E, e, fuel) ==
    IF e = NilPtr \/ fuel = 0 THEN <<>>
    ELSE <<e>> \o elementsFrom(E, E[e].next, fuel - 1)

\* The elements of the list, front first: what the loop of Slice visits.
ListElements(E, l) == elementsFrom(E, l.front, Len(E))

\* The second LinkedList is at address OtherAddr.
OtherAddr == 2

\* func (l *LinkedList) PushBack called on the second list o: the new
\* Element has parent o.
OtherPushBack(E, o, v) ==
    LET r == PushBack(E, o, v)
    IN  [r EXCEPT !.elems[Len(E) + 1].parent = OtherAddr]

\* The loop of func (l *LinkedList) PushBackList at element e of other:
\* l.PushBack(e.value), then e = e.next, read after the push.  fuel is
\* the number of iterations left before the loop has gone further than
\* the elements that existed when it started.
RECURSIVE pushBackListLoop(_, _, _, _)
pushBackListLoop(E, l, e, fuel) ==
    IF e = NilPtr THEN ListResult(E, l, "none")
    ELSE IF fuel = 0 THEN ListHang(E, l)
    ELSE LET r == PushBack(E, l, E[e].value)
         IN  IF r.panic THEN r
             ELSE pushBackListLoop(r.elems, r.list, r.elems[e].next,
                                   fuel - 1)

\* func (l *LinkedList) PushBackList.  o is the list other points to
\* (l itself when other is the receiver), Nil for a nil pointer.
PushBackList(E, l, o) ==
    IF o = Nil THEN ListResult(E, l, "none")
    ELSE pushBackListLoop(E, l, o.front, Len(E) + 1)

\* The loop of func (l *LinkedList) PushFrontList at element e of other:
\* l.PushFront(e.value), then e = e.prev, read after the push.
RECURSIVE pushFrontListLoop(_, _, _, _)
pushFrontListLoop(E, l, e, fuel) ==
    IF e = NilPtr THEN ListResult(E, l, "none")
    ELSE IF fuel = 0 THEN ListHang(E, l)
    ELSE LET r == PushFront(E, l, E[e].value)
         IN  IF r.panic THEN r
             ELSE pushFrontListLoop(r.elems, r.list, r.elems[e].prev,
                                    fuel - 1)

\* func (l *LinkedList) PushFrontList
PushFrontList(E, l, o) ==
    IF o = Nil THEN ListResult(E, l, "none")
    ELSE pushFrontListLoop(E, l, o.back, Len(E) + 1)

\* A new, empty LinkedList and a second one.
ListInit ==
    /\ elems = <<>>
    /\ list = NewList
    /\ other = NewList

-----------------------------------------------------------------------------
(* Package hashmap (src/hashmap/hashmap.go): a hash table with separate
   chaining. A key is a value of the tests' type key (hashmap_test.go:19-28):
   [i |-> n], with Hash() = n and Equals comparing i; Nil is the nil key.
   A bucket is the sequence of its chained nodes, first node first: Push
   allocates a new node for every insertion and reHashing clears only nodes
   of the old table, which nothing reads afterwards, so no node is shared.
   buckets[b + 1] is the bucket of index b. loadFactor is a number of
   eighths, which float64 represents exactly. *)
MaxHashKey == 2

MinHashKey == 0 - 1

MaxCap == 2

LoadFactorDen == 8

\* The load factors New is given, in eighths: 0 (the default is taken), 1/8
\* and 1.
LoadFactors == {0, 1, LoadFactorDen}

\* const DefaultCapacity
DefaultCapacity == 16

\* const DefaultLoadFactor = 0.75, in eighths
DefaultLoadFactor == 6

\* type key of the tests
HashKey(n) == [i |-> n]

HashKeys == {HashKey(n) : n \in MinHashKey .. MaxHashKey}

\* func (k key) Hash
Hash(k) == k.i

\* func (k key) Equals
Equals(k, v) == v # Nil /\ k.i = v.i

\* type node (hashmap)
hashNode(hashCode, key, value) ==
    [hashCode |-> hashCode, key |-> key, value |-> value]

\* Go's % on int: the result has the sign of a.
goRem(a, b) == IF a >= 0 THEN a % b ELSE 0 - ((0 - a) % b)

\* func New (hashmap)
NewHashMap(cap, loadFactor) ==
    LET c == IF cap <= 0 THEN DefaultCapacity ELSE cap
        f == IF loadFactor <= 0 THEN DefaultLoadFactor ELSE loadFactor
    IN  [buckets |-> [b \in 1 .. c |-> <<>>], cap |-> c, len |-> 0,
         loadFactor |-> f]

\* What a method returned and left: hm, the value or values returned, and
\* whether it panicked (index out of range, division by zero).
MapResult(h, r) == [hm |-> h, ret |-> r, panic |-> FALSE]

MapPanic(h) == [hm |-> h, ret |-> "panic", panic |-> TRUE]

\* func (hm *HashMap) hash; it panics when cap is 0.
hash(h, hashCode) == goRem(hashCode, h.cap)

\* hm.buckets[hash] panics for an index out of range.
InRange(h, index) == index >= 0 /\ index < Len(h.buckets)

\* func (n *node) search: the position in the chain of the first node whose
\* key equals key, 0 when there is none.
search(chain, key) ==
    IF \E p \in 1 .. Len(chain) : Equals(chain[p].key, key)
    THEN CHOOSE p \in 1 .. Len(chain) :
             /\ Equals(chain[p].key, key)
             /\ \A q \in 1 .. p - 1 : ~Equals(chain[q].key, key)
    ELSE 0

\* func (hm *HashMap) IsEmpty
HashMapIsEmpty(h) == h.len = 0

\* func (hm *HashMap) Len
HashMapLen(h) == h.len

\* func (hm *HashMap) Get: returns (v, ok).
HashMapGet(h, key) ==
    IF key = Nil \/ HashMapIsEmpty(h)
    THEN MapResult(h, [v |-> NilValue, ok |-> FALSE])
    ELSE IF h.cap = 0 \/ ~InRange(h, hash(h, Hash(key)))
    THEN MapPanic(h)
    ELSE LET chain == h.buckets[hash(h, Hash(key)) + 1]
             found == search(chain, key)
         IN  IF found = 0
             THEN MapResult(h, [v |-> NilValue, ok |-> FALSE])
             ELSE MapResult(h, [v |-> chain[found].value, ok |-> TRUE])

\* The nodes of the table, bucket by bucket and each chain from its first
\* node: the order in which reHashing, Clone, Do and Map visit them.
RECURSIVE nodesFrom(_, _)
nodesFrom(buckets, b) ==
    IF b > Len(buckets) THEN <<>>
    ELSE buckets[b] \o nodesFrom(buckets, b + 1)

Entries(h) == nodesFrom(h.buckets, 1)

\* func (hm *HashMap) Push, and func (hm *HashMap) reHashing, which calls
\* Push for every node of the old table (reinsert is its loop).
RECURSIVE HashMapPush(_, _, _)
RECURSIVE reinsert(_, _)
reinsert(h, old) ==
    IF old = <<>> THEN MapResult(h, "none")
    ELSE LET r == HashMapPush(h, old[1].key, old[1].value)
         IN  IF r.panic THEN r ELSE reinsert(r.hm, Tail(old))

reHashing(h) ==
    reinsert([h EXCEPT !.buckets = [b \in 1 .. h.cap * 2 |-> <<>>],
                       !.cap = h.cap * 2,
                       !.len = 0],
             Entries(h))

HashMapPush(h, key, v) ==
    IF key = Nil THEN MapResult(h, FALSE)
    ELSE LET r == IF h.len * LoadFactorDen > h.cap * h.loadFactor
                  THEN reHashing(h)
                  ELSE MapResult(h, "none")
             h1 == r.hm
             hashCode == Hash(key)
         IN  IF r.panic THEN r
             ELSE IF h1.cap = 0 \/ ~InRange(h1, hash(h1, hashCode))
             THEN MapPanic(h1)
             ELSE LET b     == hash(h1, hashCode) + 1
                      chain == h1.buckets[b]
                      found == search(chain, key)
                  IN  IF chain # <<>> /\ found # 0
                      THEN MapResult(
                               [h1 EXCEPT !.buckets[b][found] =
                                              hashNode(hashCode, key, v)],
                               TRUE)
                      ELSE MapResult(
                               [h1 EXCEPT !.buckets[b] =
                                     <<hashNode(hashCode, key, v)>> \o chain,
                                          !.len = @ + 1],
                               TRUE)

\* func (hm *HashMap) Remove: returns (v, ok).
HashMapRemove(h, key) ==
    IF key = Nil THEN MapResult(h, [v |-> NilValue, ok |-> FALSE])
    ELSE IF h.cap = 0 \/ ~InRange(h, hash(h, Hash(key)))
    THEN MapPanic(h)
    ELSE LET b     == hash(h, Hash(key)) + 1
             chain == h.buckets[b]
             found == search(chain, key)
         IN  IF chain = <<>> \/ found = 0
             THEN MapResult(h, [v |-> NilValue, ok |-> FALSE])
             ELSE MapResult(
                      [h EXCEPT !.buckets[b] =
                                    SubSeq(chain, 1, found - 1)
                                    \o SubSeq(chain, found + 1, Len(chain)),
                                !.len = @ - 1],
                      [v |-> chain[found].value, ok |-> TRUE])

\* func (hm *HashMap) RemoveAll
HashMapRemoveAll(h) ==
    MapResult([buckets |-> <<>>, cap |-> 0, len |-> 0, loadFactor |-> 0],
              "none")

\* hashmap.New(0, 0): the map with the default capacity and load factor.
MapInit == hm = NewHashMap(0, 0)

\* The value of rot before leftRotate or rightRotate is called on its own.
NoRotation == [none |-> TRUE]

RotInit == rot = NoRotation

-----------------------------------------------------------------------------
\* func New, with the comparator c the caller will use.
InitWith(c) ==
    /\ root = Nil
    /\ panicked = FALSE
    /\ lastOp = "New"
    /\ lastArg = NilValue
    /\ ret = "none"
    /\ pre = Nil
    /\ M = {}
    /\ clone = Nil
    /\ hasClone = FALSE
    /\ comparator = c
    /\ IteratorInit("queue")
    /\ ListInit
    /\ MapInit
    /\ RotInit

Init == InitWith("compareInt")

\* The two sets after a call left them as r and c: live nodes renamed.
Settle(r, c) ==
    LET seq == Addrs(r) \o Addrs(c)
    IN  /\ root' = Readdress(r, seq)
        /\ clone' = Readdress(c, seq)

\* func (s *SortedSet) Push
Push(v) ==
    /\ ~panicked
    /\ LET r == pushRecursive(v, root)
       IN  /\ Settle(r.n, clone)
           /\ panicked' = r.panic
           /\ ret' = IF r.panic THEN "panic" ELSE "none"
           /\ M' = IF r.panic THEN M ELSE SetPush(M, v)
    /\ lastOp' = "Push"
    /\ lastArg' = v
    /\ pre' = root
    /\ UNCHANGED <<hasClone, comparator, otherContainers>>

\* func (s *SortedSet) Remove
Remove(v) ==
    /\ ~panicked
    /\ LET r == removeRecursive(v, root)
       IN  /\ Settle(r.n, clone)
           /\ panicked' = r.panic
           /\ ret' = IF r.panic THEN "panic"
                     ELSE IF r.removed THEN "true" ELSE "false"
           /\ M' = IF r.panic THEN M ELSE SetRemove(M, v)
    /\ lastOp' = "Remove"
    /\ lastArg' = v
    /\ pre' = root
    /\ UNCHANGED <<hasClone, comparator, otherContainers>>

\* A faulty RemoveAll: it clears the root node (node.clear) and keeps the
\* pointer to it.
RemoveAllClearsRoot ==
    /\ ~panicked
    /\ Settle(IF root = Nil THEN Nil ELSE clear(root), clone)
    /\ panicked' = FALSE
    /\ ret' = "none"
    /\ M' = {}
    /\ lastOp' = "RemoveAll"
    /\ lastArg' = NilValue
    /\ pre' = root
    /\ UNCHANGED <<hasClone, comparator, otherContainers>>

\* func (s *SortedSet) RemoveAll
RemoveAll ==
    /\ ~panicked
    /\ Settle(Nil, clone)
    /\ panicked' = FALSE
    /\ ret' = "none"
    /\ M' = {}
    /\ lastOp' = "RemoveAll"
    /\ lastArg' = NilValue
    /\ pre' = root
    /\ UNCHANGED <<hasClone, comparator, otherContainers>>

\* func (s *SortedSet) Clone, called once on the set.
Clone ==
    /\ ~panicked
    /\ ~hasClone
    /\ Settle(root, cloneRecursive(root))
    /\ hasClone' = TRUE
    /\ lastOp' = "Clone"
    /\ lastArg' = NilValue
    /\ ret' = "none"
    /\ pre' = root
    /\ UNCHANGED <<panicked, M, comparator, otherContainers>>

\* Push called on the clone.
ClonePush(v) ==
    /\ ~panicked
    /\ hasClone
    /\ LET r == pushRecursive(v, clone)
       IN  /\ Settle(root, r.n)
           /\ panicked' = r.panic
           /\ ret' = IF r.panic THEN "panic" ELSE "none"
    /\ lastOp' = "ClonePush"
    /\ lastArg' = v
    /\ pre' = clone
    /\ UNCHANGED <<M, hasClone, comparator, otherContainers>>

\* Remove called on the clone.
CloneRemove(v) ==
    /\ ~panicked
    /\ hasClone
    /\ LET r == removeRecursive(v, clone)
       IN  /\ Settle(root, r.n)
           /\ panicked' = r.panic
           /\ ret' = IF r.panic THEN "panic"
                     ELSE IF r.removed THEN "true" ELSE "false"
    /\ lastOp' = "CloneRemove"
    /\ lastArg' = v
    /\ pre' = clone
    /\ UNCHANGED <<M, hasClone, comparator, otherContainers>>

\* A call of a method that only reads the set.  name is the method, v its
\* argument, result what it returns ("panic" when the call panics).  None of
\* these methods assigns to s.root or to a field of a node.
Query(name, v, result) ==
    /\ ~panicked
    /\ panicked' = (result = "panic")
    /\ ret' = result
    /\ lastOp' = name
    /\ lastArg' = v
    /\ pre' = root
    /\ UNCHANGED <<root, M, clone, hasClone, comparator, otherContainers>>

\* func (s *SortedSet) Contains
ContainsCall(v) == Query("Contains", v, Contains(v, root))

\* func (s *SortedSet) Min
MinCall == Query("Min", NilValue, "none")

\* A faulty Max: the loop to the rightmost node advances s.root itself
\* instead of a local pointer.
MaxCallMovesRoot ==
    /\ ~panicked
    /\ Settle(IF root = Nil THEN Nil ELSE
                  LET RECURSIVE last(_)
                      last(n) == IF n.right # Nil THEN last(n.right) ELSE n
                  IN  last(root),
              clone)
    /\ ret' = "none"
    /\ lastOp' = "Max"
    /\ lastArg' = NilValue
    /\ pre' = root
    /\ UNCHANGED <<panicked, M, hasClone, comparator, otherContainers>>

\* func (s *SortedSet) Max
MaxCall == Query("Max", NilValue, "none")

\* func (s *SortedSet) Len
LenCall == Query("Len", NilValue, "none")

\* func (s *SortedSet) IsEmpty
IsEmptyCall == Query("IsEmpty", NilValue, "none")

\* func (s *SortedSet) Slice
SliceCall == Query("Slice", NilValue, "none")

\* func (s *SortedSet) String
StringCall == Query("String", NilValue, "none")

\* func (s *SortedSet) Do, with k procedures that do not touch the set
\* (the argument recorded is k).
DoCall(k) == Query("Do", k, "none")

\* RemoveAll called on the clone.
CloneRemoveAll ==
    /\ ~panicked
    /\ hasClone
    /\ Settle(root, Nil)
    /\ panicked' = FALSE
    /\ ret' = "none"
    /\ lastOp' = "CloneRemoveAll"
    /\ lastArg' = NilValue
    /\ pre' = clone
    /\ UNCHANGED <<M, hasClone, comparator, otherContainers>>

Next ==
    \/ \E v \in Values : Push(v)
    \/ \E v \in Values : Remove(v)
    \/ RemoveAll

Spec == Init /\ [][Next]_vars

\* One set used with a comparator that looks only at the key.
InitKey == InitWith("compareKey")

NextKey ==
    \/ \E v \in KeyedValues : Push(v)
    \/ \E v \in KeyedValues : Remove(v)
    \/ RemoveAll

SpecKey == InitKey /\ [][NextKey]_vars

\* A set and its clone, each pushed to and removed from.
NextClone ==
    \/ \E v \in CloneValues : Push(v)
    \/ \E v \in CloneValues : Remove(v)
    \/ RemoveAll
    \/ Clone
    \/ \E v \in CloneValues : ClonePush(v)
    \/ \E v \in CloneValues : CloneRemove(v)
    \/ CloneRemoveAll

SpecClone == Init /\ [][NextClone]_vars

\* A set is built from the values 1..MaxShapeVal, with rotations, then
\* cloned; from then on the original and the clone are both used.
NextShape ==
    \/ ~hasClone /\ \E v \in ShapeValues : Push(v)
    \/ ~hasClone /\ \E v \in ShapeValues : Remove(v)
    \/ RemoveAll
    \/ Clone
    \/ hasClone /\ \E v \in CloneValues : Push(v)
    \/ hasClone /\ \E v \in CloneValues : Remove(v)
    \/ \E v \in CloneValues : ClonePush(v)
    \/ \E v \in CloneValues : CloneRemove(v)
    \/ CloneRemoveAll

SpecShape == Init /\ [][NextShape]_vars

\* A set on which, next to Push, Remove and RemoveAll, the query methods
\* are called.
NextQuery ==
    \/ \E v \in QueryValues : Push(v)
    \/ \E v \in QueryValues : Remove(v)
    \/ RemoveAll
    \/ \E v \in QueryValues : ContainsCall(v)
    \/ MinCall
    \/ MaxCall
    \/ LenCall
    \/ IsEmptyCall
    \/ SliceCall
    \/ StringCall
    \/ Clone
    \/ \E k \in 0..MaxProcs : DoCall(k)

SpecQuery == Init /\ [][NextQuery]_vars

-----------------------------------------------------------------------------
(* Calls on the queue or stack and on its iterator. *)

\* func (q *Queue) Push, func (s *Stack) Push
ContainerPush(v) ==
    /\ ~panicked
    /\ Len(heap) < MaxNodes
    /\ LET r == push(heap, coll, v)
       IN  /\ heap' = r.heap
           /\ coll' = r.coll
           /\ panicked' = r.panic
           /\ ret' = IF r.panic THEN "panic" ELSE "none"
    /\ lastOp' = "Push"
    /\ lastArg' = v
    /\ UNCHANGED <<kind, it, orig, given, removedIdx, lastIterCall, setVars,
                   listVars, mapVars, rotateVars>>

\* func (q *Queue) Get, func (s *Stack) Get
ContainerGet ==
    /\ ~panicked
    /\ LET r == get(heap, coll)
       IN  /\ heap' = r.heap
           /\ coll' = r.coll
           /\ panicked' = r.panic
           /\ ret' = IF r.panic THEN "panic" ELSE [v |-> r.v]
    /\ lastOp' = "Get"
    /\ lastArg' = NilValue
    /\ UNCHANGED <<kind, it, orig, given, removedIdx, lastIterCall, setVars,
                   listVars, mapVars, rotateVars>>

\* func (q *Queue) Iterator, func (s *Stack) Iterator, called once.
Iterator ==
    /\ ~panicked
    /\ it = NoIterator
    /\ it' = newIterator
    /\ orig' = containerSlice(heap, coll)
    /\ given' = <<>>
    /\ removedIdx' = {}
    /\ lastIterCall' = [op |-> "none", ok |-> FALSE]
    /\ lastOp' = "Iterator"
    /\ lastArg' = NilValue
    /\ ret' = "none"
    /\ UNCHANGED <<panicked, kind, heap, coll, setVars, listVars, mapVars,
                   rotateVars>>

\* func (i *iterator) ForEach, with no action (nil) or with an action that
\* leaves every value as it is.
ForEach(action) ==
    /\ ~panicked
    /\ it # NoIterator
    /\ heap' = IF action = "nil" THEN heap
               ELSE [a \in DOMAIN heap |-> heap[a]]
    /\ lastOp' = "ForEach"
    /\ lastArg' = NilValue
    /\ ret' = "none"
    /\ UNCHANGED <<panicked, kind, coll, it, orig, given, removedIdx,
                   lastIterCall, setVars, listVars, mapVars, rotateVars>>

\* func (i *iterator) HasNext
HasNext ==
    /\ ~panicked
    /\ it # NoIterator
    /\ LET b == it.index < coll.len - 1
       IN  /\ it' = [it EXCEPT !.lastCommand = iteratorCommandHasNext,
                               !.lastHasNext = b]
           /\ ret' = IF b THEN "true" ELSE "false"
           /\ lastIterCall' = [op |-> "HasNext", ok |-> b]
    /\ lastOp' = "HasNext"
    /\ lastArg' = NilValue
    /\ UNCHANGED <<panicked, kind, heap, coll, orig, given, removedIdx,
                   setVars, listVars, mapVars, rotateVars>>

\* A faulty nextStep: i.prev is not moved along with i.this.
nextStepKeepsPrev(i) ==
    [i EXCEPT !.this = IF i.this = NilPtr THEN first(coll)
                       ELSE heap[i.this].next,
              !.index = i.index + 1,
              !.lastCommand = iteratorCommandNext]

\* The iterator after the assignments of Next.
nextStep(i) ==
    [i EXCEPT !.prev = IF i.this = NilPtr THEN i.prev ELSE i.this,
              !.this = IF i.this = NilPtr THEN first(coll)
                       ELSE heap[i.this].next,
              !.index = i.index + 1,
              !.lastCommand = iteratorCommandNext]

\* The error Next returns for its call order ("nil" for none).
\* A faulty one follows: it does not look at what HasNext returned.
nextErrorIgnoresHasNext(i) ==
    IF i.lastCommand # iteratorCommandHasNext THEN ErrorIteratorNext
    ELSE "nil"

nextError(i) ==
    IF i.lastCommand # iteratorCommandHasNext THEN ErrorIteratorNext
    ELSE IF ~i.lastHasNext THEN ErrorIteratorHasNext
    ELSE "nil"

\* func (i *iterator) Next.  It returns (v, err); reading i.this.value
\* panics when i.this is nil.
IteratorNext ==
    /\ ~panicked
    /\ it # NoIterator
    /\ IF nextError(it) # "nil"
       THEN /\ ret' = [v |-> NilValue, err |-> nextError(it)]
            /\ UNCHANGED <<panicked, it, given>>
       ELSE /\ it' = nextStep(it)
            /\ IF nextStep(it).this = NilPtr
               THEN /\ panicked' = TRUE
                    /\ ret' = "panic"
                    /\ UNCHANGED given
               ELSE /\ ret' = [v |-> heap[nextStep(it).this].value,
                               err |-> "nil"]
                    /\ given' = Append(given, heap[nextStep(it).this].value)
                    /\ UNCHANGED panicked
    /\ lastIterCall' = IF nextError(it) # "nil" THEN lastIterCall
                       ELSE [op |-> "Next", ok |-> TRUE]
    /\ lastOp' = "Next"
    /\ lastArg' = NilValue
    /\ UNCHANGED <<kind, heap, coll, orig, removedIdx, setVars, listVars,
                   mapVars, rotateVars>>

\* The error Remove returns for its call order ("nil" for none).
removeError(i) ==
    IF ~i.lastHasNext THEN ErrorIteratorHasNext
    ELSE IF i.lastCommand # iteratorCommandNext THEN ErrorIteratorRemove
    ELSE "nil"

\* func (i *iterator) Remove.  It returns err.
IteratorRemove ==
    /\ ~panicked
    /\ it # NoIterator
    /\ IF removeError(it) # "nil"
       THEN /\ ret' = removeError(it)
            /\ UNCHANGED <<panicked, heap, coll, it, removedIdx>>
       ELSE LET r == removeNode(heap, coll, it.prev, it.this)
            IN  /\ heap' = r.heap
                /\ coll' = r.coll
                /\ panicked' = r.panic
                /\ it' = IF r.panic THEN it
                         ELSE [it EXCEPT !.this = it.prev,
                                         !.index = it.index - 1,
                                         !.lastCommand = iteratorCommandRemove]
                /\ ret' = IF r.panic THEN "panic" ELSE "nil"
                /\ removedIdx' = IF r.panic THEN removedIdx
                                 ELSE removedIdx \cup {Len(given)}
    /\ lastIterCall' = IF removeError(it) # "nil" THEN lastIterCall
                       ELSE [op |-> "Remove", ok |-> TRUE]
    /\ lastOp' = "Remove"
    /\ lastArg' = NilValue
    /\ UNCHANGED <<kind, orig, given, setVars, listVars, mapVars, rotateVars>>

\* A queue or a stack is filled by Push and Get, then Iterator() is called
\* and only the iterator is used.
InitIter ==
    /\ root = Nil
    /\ panicked = FALSE
    /\ lastOp = "New"
    /\ lastArg = NilValue
    /\ ret = "none"
    /\ pre = Nil
    /\ M = {}
    /\ clone = Nil
    /\ hasClone = FALSE
    /\ comparator = "compareInt"
    /\ \E k \in Kinds : IteratorInit(k)
    /\ ListInit
    /\ MapInit
    /\ RotInit

NextIter ==
    \/ it = NoIterator /\ \E v \in Items : ContainerPush(v)
    \/ it = NoIterator /\ ContainerGet
    \/ Iterator
    \/ \E action \in {"nil", "keep"} : ForEach(action)
    \/ HasNext
    \/ IteratorNext
    \/ IteratorRemove

SpecIter == InitIter /\ [][NextIter]_vars

-----------------------------------------------------------------------------
(* A Queue on which Push, Get, GetIf, Do and RemoveAll are called at any
   time, before and after Iterator(), next to the calls on the iterator. *)
QueueCall(name, arg, r, result) ==
    /\ ~panicked
    /\ heap' = r.heap
    /\ coll' = r.coll
    /\ panicked' = (r.panic \/ r.hang)
    /\ ret' = IF r.panic THEN "panic" ELSE IF r.hang THEN "hang" ELSE result
    /\ lastOp' = name
    /\ lastArg' = arg
    /\ UNCHANGED <<kind, it, orig, given, removedIdx, lastIterCall, setVars,
                   listVars, mapVars, rotateVars>>

QueueGetIfCall(C) ==
    LET r == queueGetIf(heap, coll, C)
    IN  QueueCall("GetIf", NilValue, r, [v |-> r.v])

QueueDoCall ==
    QueueCall("Do", NilValue, queueDo(heap, coll, Len(heap) + 1), "none")

QueueRemoveAllCall ==
    QueueCall("RemoveAll", NilValue,
              [heap |-> heap, coll |-> queueRemoveAll(coll),
               panic |-> FALSE, hang |-> FALSE],
              "none")

NextQueue ==
    \/ \E v \in Items : ContainerPush(v)
    \/ ContainerGet
    \/ \E C \in SUBSET Items : QueueGetIfCall(C)
    \/ QueueDoCall
    \/ QueueRemoveAllCall
    \/ Iterator
    \/ HasNext
    \/ IteratorNext
    \/ IteratorRemove

SpecQueue == Init /\ [][NextQueue]_vars

-----------------------------------------------------------------------------
(* The LinkedList's methods as actions. An *Element argument is nil or any
   element allocated so far, whether it is still in the list or not: the
   caller keeps the pointers Front, Back, Get, Search and the pushes gave.
   lastArg keeps the argument of the methods that take one argument. *)
ListCall(name, arg, r) ==
    /\ ~panicked
    /\ elems' = r.elems
    /\ list' = r.list
    /\ panicked' = (r.panic \/ r.hang)
    /\ lastOp' = name
    /\ lastArg' = arg
    /\ ret' = r.ret
    /\ UNCHANGED <<other, setVars, iteratorVars, mapVars, rotateVars>>

\* The *Element values a caller can pass.
ElementArgs == 0 .. Len(elems)

PushBackCall(v) ==
    /\ Len(elems) < MaxElems
    /\ ListCall("PushBack", v, PushBack(elems, list, v))

PushFrontCall(v) ==
    /\ Len(elems) < MaxElems
    /\ ListCall("PushFront", v, PushFront(elems, list, v))

PushAfterCall(v, mark) ==
    /\ Len(elems) < MaxElems
    /\ ListCall("PushAfter", NilValue, PushAfter(elems, list, v, mark))

PushBeforeCall(v, mark) ==
    /\ Len(elems) < MaxElems
    /\ ListCall("PushBefore", NilValue, PushBefore(elems, list, v, mark))

MoveAfterCall(e, mark) ==
    ListCall("MoveAfter", NilValue, MoveAfter(elems, list, e, mark))

MoveBeforeCall(e, mark) ==
    ListCall("MoveBefore", NilValue, MoveBefore(elems, list, e, mark))

MoveToBackCall(e) ==
    ListCall("MoveToBack", e, MoveToBack(elems, list, e))

MoveToFrontCall(e) ==
    ListCall("MoveToFront", e, MoveToFront(elems, list, e))

ListRemoveCall(v) ==
    ListCall("Remove", v, ListRemove(elems, list, v))

ListRemoveAllCall ==
    ListCall("RemoveAll", NilValue, ListRemoveAll(elems, list))

RemoveElementCall(e) ==
    ListCall("RemoveElement", e, RemoveElement(elems, list, e))

RemoveFromCall(start, end) ==
    ListCall("RemoveFrom", NilValue, RemoveFrom(elems, list, start, end))

RemoveIfCall(C) ==
    ListCall("RemoveIf", NilValue, RemoveIf(elems, list, C))

SwapCall(a, b) ==
    ListCall("Swap", NilValue, Swap(elems, list, a, b))

NextList ==
    \/ \E v \in Items : PushBackCall(v)
    \/ \E v \in Items : PushFrontCall(v)
    \/ \E v \in Items, mark \in ElementArgs : PushAfterCall(v, mark)
    \/ \E v \in Items, mark \in ElementArgs : PushBeforeCall(v, mark)
    \/ \E e \in ElementArgs, mark \in ElementArgs : MoveAfterCall(e, mark)
    \/ \E e \in ElementArgs, mark \in ElementArgs : MoveBeforeCall(e, mark)
    \/ \E e \in ElementArgs : MoveToBackCall(e)
    \/ \E e \in ElementArgs : MoveToFrontCall(e)
    \/ \E v \in Items : ListRemoveCall(v)
    \/ ListRemoveAllCall
    \/ \E e \in ElementArgs : RemoveElementCall(e)
    \/ \E start \in ElementArgs, end \in ElementArgs :
           RemoveFromCall(start, end)
    \/ \E C \in SUBSET Items : RemoveIfCall(C)
    \/ \E a \in ElementArgs, b \in ElementArgs : SwapCall(a, b)

SpecList == Init /\ [][NextList]_vars

(* Two LinkedLists: the receiver l and a second list, each filled by PushBack
   and PushFront, and l.PushBackList(other), l.PushFrontList(other) with
   other the second list, the receiver itself or nil. *)
OtherPushBackCall(v) ==
    /\ ~panicked
    /\ Len(elems) < MaxElems
    /\ LET r == OtherPushBack(elems, other, v)
       IN  /\ elems' = r.elems
           /\ other' = r.list
           /\ ret' = r.ret
    /\ lastOp' = "other.PushBack"
    /\ lastArg' = v
    /\ UNCHANGED <<panicked, list, setVars, iteratorVars, mapVars,
                   rotateVars>>

\* The *LinkedList values a caller can pass: the list the name stands for.
ListArgs == {"self", "other", "nil"}

ListArg(name) ==
    IF name = "self" THEN list
    ELSE IF name = "other" THEN other
    ELSE Nil

PushBackListCall(name) ==
    /\ Len(elems) <= MaxElems
    /\ ListCall("PushBackList", name,
                PushBackList(elems, list, ListArg(name)))

PushFrontListCall(name) ==
    /\ Len(elems) <= MaxElems
    /\ ListCall("PushFrontList", name,
                PushFrontList(elems, list, ListArg(name)))

NextPushList ==
    \/ \E v \in Items : PushBackCall(v)
    \/ \E v \in Items : PushFrontCall(v)
    \/ \E v \in Items : OtherPushBackCall(v)
    \/ \E name \in ListArgs : PushBackListCall(name)
    \/ \E name \in ListArgs : PushFrontListCall(name)

SpecPushList == Init /\ [][NextPushList]_vars

-----------------------------------------------------------------------------
(* The HashMap's methods as actions. lastArg keeps the key (and, for Push,
   the value) of the call. *)
MapCall(name, arg, r) ==
    /\ ~panicked
    /\ hm' = r.hm
    /\ panicked' = r.panic
    /\ lastOp' = name
    /\ lastArg' = arg
    /\ ret' = r.ret
    /\ UNCHANGED <<setVars, iteratorVars, listVars, rotateVars>>

\* The keys a caller can pass: the nil key too.
KeyArgs == HashKeys \cup {Nil}

HashMapPushCall(key, v) ==
    MapCall("HashMap.Push", [key |-> key, v |-> v], HashMapPush(hm, key, v))

HashMapGetCall(key) ==
    MapCall("HashMap.Get", [key |-> key], HashMapGet(hm, key))

HashMapRemoveCall(key) ==
    MapCall("HashMap.Remove", [key |-> key], HashMapRemove(hm, key))

HashMapRemoveAllCall ==
    MapCall("HashMap.RemoveAll", NilValue, HashMapRemoveAll(hm))

\* hashmap.New(cap, loadFactor), for small and for defaulted arguments.
InitMap ==
    /\ root = Nil
    /\ panicked = FALSE
    /\ lastOp = "New"
    /\ lastArg = NilValue
    /\ ret = "none"
    /\ pre = Nil
    /\ M = {}
    /\ clone = Nil
    /\ hasClone = FALSE
    /\ comparator = "compareInt"
    /\ IteratorInit("queue")
    /\ ListInit
    /\ \E cap \in 0 .. MaxCap, loadFactor \in LoadFactors :
           hm = NewHashMap(cap, loadFactor)
    /\ RotInit

NextMap ==
    \/ \E key \in KeyArgs, v \in Items : HashMapPushCall(key, v)
    \/ \E key \in KeyArgs : HashMapGetCall(key)
    \/ \E key \in KeyArgs : HashMapRemoveCall(key)
    \/ HashMapRemoveAllCall

SpecMap == InitMap /\ [][NextMap]_vars

-----------------------------------------------------------------------------
(* Helpers of the package's tests (src/unnamed/part_004) and of the claims. *)

\* func heightRecursive: the height counted level by level.
RECURSIVE heightRecursive(_)
heightRecursive(n) ==
    IF n = Nil THEN 0
    ELSE 1 + maxInt(heightRecursive(n.left), heightRecursive(n.right))

\* func lengthRecursive: the number of nodes counted by walking the tree.
RECURSIVE lengthRecursive(_)
lengthRecursive(n) ==
    IF n = Nil THEN 0
    ELSE 1 + lengthRecursive(n.left) + lengthRecursive(n.right)

\* The subtrees rooted at the nodes reachable from n (n included).
RECURSIVE Subtrees(_)
Subtrees(n) ==
    IF n = Nil THEN {}
    ELSE {n} \cup Subtrees(n.left) \cup Subtrees(n.right)

\* The values held by the nodes reachable from n.
ValuesOf(n) == {t.value : t \in Subtrees(n)}

\* seq is strictly ascending under the comparator (which must not panic).
StrictlyAscending(seq) ==
    \A i \in 1..(Len(seq) - 1) :
        /\ ~comparePanics(seq[i], seq[i + 1])
        /\ compare(seq[i], seq[i + 1]) < 0

\* The elements of the finite set S of ints in ascending order.
RECURSIVE SortedSeq(_)
SortedSeq(S) ==
    IF S = {} THEN <<>>
    ELSE LET m == CHOOSE x \in S : \A y \in S : x <= y
         IN  <<m>> \o SortedSeq(S \ {m})

\* The node the descent for v ends at (Nil when it finds none or panics).
RECURSIVE MatchNode(_, _)
MatchNode(v, n) ==
    IF n = Nil \/ comparePanics(v, n.value) THEN Nil
    ELSE IF compare(v, n.value) < 0 THEN MatchNode(v, n.left)
    ELSE IF compare(v, n.value) > 0 THEN MatchNode(v, n.right)
    ELSE n

\* The number of children (non-nil pointers) of node n.
ChildCount(n) ==
    (IF n.left = Nil THEN 0 ELSE 1) + (IF n.right = Nil THEN 0 ELSE 1)

\* A Push or Remove call has returned (it did not panic).
Returned == lastOp \in {"Push", "Remove"} /\ ~panicked

-----------------------------------------------------------------------------
(* leftRotate and rightRotate called on their own, on a subtree of a set
   that Push and Remove built; the set itself is left as it is. *)
RotateCall(name, n, r) ==
    /\ ~panicked
    /\ rot = NoRotation
    /\ rot' = [op |-> name, n |-> n, root |-> r]
    /\ lastOp' = name
    /\ lastArg' = NilValue
    /\ ret' = "none"
    /\ UNCHANGED <<panicked, setVars, iteratorVars, listVars, mapVars>>

\* leftRotate dereferences n.right: n and n.right are not nil.
LeftRotateCall(n) ==
    /\ n.right # Nil
    /\ RotateCall("leftRotate", n, leftRotate(n))

\* rightRotate dereferences n.left: n and n.left are not nil.
RightRotateCall(n) ==
    /\ n.left # Nil
    /\ RotateCall("rightRotate", n, rightRotate(n))

NextRotate ==
    \/ rot = NoRotation /\ \E v \in RotValues : Push(v)
    \/ rot = NoRotation /\ \E v \in RotValues : Remove(v)
    \/ \E n \in Subtrees(root) : LeftRotateCall(n)
    \/ \E n \in Subtrees(root) : RightRotateCall(n)

SpecRotate == Init /\ [][NextRotate]_vars

-----------------------------------------------------------------------------
\* C1: after every sequence of Push and Remove calls, the in-order
\* traversal Slice() is strictly ascending under the comparator, and at
\* every node the left subtree holds only smaller and the right subtree
\* only greater values.
C1_InOrderStrictlyAscending ==
    Returned =>
        /\ StrictlyAscending(Slice(root))
        /\ \A t \in Subtrees(root) :
               /\ \A l \in Subtrees(t.left) :
                      ~comparePanics(l.value, t.value) /\ compare(l.value, t.value) < 0
               /\ \A r \in Subtrees(t.right) :
                      ~comparePanics(r.value, t.value) /\ compare(r.value, t.value) > 0

\* C2: run side by side with the mathematical set M, Slice() returns
\* exactly the elements of M, each once, in ascending order.
C2_SliceIsTheSet ==
    ~panicked => Slice(root) = SortedSeq(M)

\* C3: whenever Remove(v) returns true, Contains(v) is false in the
\* resulting set and Len() is exactly one less than before the call.
C3_RemoveTrueShrinks ==
    (lastOp = "Remove" /\ ret = "true") =>
        /\ Contains(lastArg, root) = "false"
        /\ SortedSetLen(root) = SortedSetLen(pre) - 1

\* C4: when Remove(v) matches a node with exactly one child, the node is
\* spliced out: the tree has one node less, holds the previous values
\* minus v, and no node is left without a pushed value.
C4_OneChildSplicedOut ==
    (/\ lastOp = "Remove"
     /\ ret = "true"
     /\ ChildCount(MatchNode(lastArg, pre)) = 1) =>
        /\ lengthRecursive(root) = lengthRecursive(pre) - 1
        /\ ValuesOf(root) = ValuesOf(pre) \ {lastArg}
        /\ NilValue \notin ValuesOf(root)

\* C5: a Remove call that returns true deletes exactly one physical node
\* (the count of nodes reachable from the root drops by 1), and one that
\* returns false deletes none.
C5_RemoveDeletesOneNode ==
    /\ (lastOp = "Remove" /\ ret = "true") =>
           lengthRecursive(root) = lengthRecursive(pre) - 1
    /\ (lastOp = "Remove" /\ ret = "false") =>
           lengthRecursive(root) = lengthRecursive(pre)

\* C6: when Remove(v) returns false, the set is unchanged: Slice() returns
\* the same sequence as before the call and Len() is the same.
C6_RemoveFalseUnchanged ==
    (lastOp = "Remove" /\ ret = "false") =>
        /\ Slice(root) = Slice(pre)
        /\ SortedSetLen(root) = SortedSetLen(pre)

\* Witness of C6: Remove returned false on a set of at least three values,
\* after a descent through at least two nodes.
C6_Witness ==
    /\ lastOp = "Remove"
    /\ ret = "false"
    /\ SortedSetLen(pre) >= 3
    /\ lastArg \notin ValuesOf(pre)
    /\ pre.value > lastArg
    /\ pre.left # Nil

\* C7: Remove(v) returns true if and only if Contains(v) was true
\* immediately before the call; on an empty set it returns false.
C7_RemoveTrueIffContained ==
    lastOp = "Remove" =>
        /\ (ret = "true") <=> (Contains(lastArg, pre) = "true")
        /\ IsEmpty(pre) => ret = "false"

\* C8: after every Push and every Remove, at every node reachable from the
\* root the heights of the left and right subtrees differ by at most 1
\* (an absent subtree has height 0).
C8_Balanced ==
    Returned =>
        \A t \in Subtrees(root) :
            heightRecursive(t.left) - heightRecursive(t.right) \in {-1, 0, 1}

\* C9: after every Push and every Remove, every reachable node has a cached
\* height h equal to 1 + max of the actual heights of its subtrees.
C9_CachedHeight ==
    Returned =>
        \A t \in Subtrees(root) :
            t.h = 1 + maxInt(heightRecursive(t.left), heightRecursive(t.right))

\* C10: after every Push and every Remove, every reachable node has a
\* cached size len equal to 1 + the node counts of its subtrees; in
\* particular len >= 1.
C10_CachedLength ==
    Returned =>
        \A t \in Subtrees(root) :
            /\ t.len = 1 + lengthRecursive(t.left) + lengthRecursive(t.right)
            /\ t.len >= 1

\* C11: after any sequence of Push, Remove and RemoveAll, Len() is 0 for
\* an empty set and otherwise the root's cached size, and it equals the
\* number of distinct values in the set and the length of Slice().
C11_LenIsCardinality ==
    ~panicked =>
        /\ SortedSetLen(root) = (IF root = Nil THEN 0 ELSE root.len)
        /\ SortedSetLen(root) = Cardinality(M)
        /\ SortedSetLen(root) = Len(Slice(root))

\* C12: for every value v, Contains(v) returns true exactly when v has
\* been pushed and not removed since (false otherwise); on an empty set it
\* returns false for every v.
C12_ContainsIsMembership ==
    ~panicked =>
        \A v \in Values :
            Contains(v, root) = (IF v \in M THEN "true" ELSE "false")

\* C13: Push(v) of a value not yet in the set adds exactly one node:
\* afterwards Contains(v) is true, Len() is one more than before, and every
\* value that was in the set before is still there.
C13_PushAddsOne ==
    (lastOp = "Push" /\ lastArg \notin ValuesOf(pre)) =>
        /\ Contains(lastArg, root) = "true"
        /\ lengthRecursive(root) = lengthRecursive(pre) + 1
        /\ SortedSetLen(root) = SortedSetLen(pre) + 1
        /\ ValuesOf(pre) \subseteq ValuesOf(root)

\* The tree n without its values: the nodes, their places and their cached
\* heights and sizes.
RECURSIVE Skeleton(_)
Skeleton(n) ==
    IF n = Nil THEN Nil
    ELSE [n EXCEPT !.value = NilValue,
                   !.left = Skeleton(n.left),
                   !.right = Skeleton(n.right)]

\* The value held by the node of tree n whose address is a.
ValueAt(n, a) == (CHOOSE t \in Subtrees(n) : t.addr = a).value

\* C14: Push of a value that compares equal to a stored value changes
\* nothing: the call returns, no node is added, no rotation happens, the
\* cached heights and sizes and Len() are as before (the tree is the same).
C14_PushPresentIdempotent ==
    (lastOp = "Push" /\ lastArg \in ValuesOf(pre)) =>
        /\ ~panicked
        /\ root = pre
        /\ SortedSetLen(root) = SortedSetLen(pre)

\* C15: when Push(v) finds a stored value w with compare(v, w) = 0, the
\* node that held w holds v afterwards, every other node and every cached
\* field is as before, and Slice() holds v and no other value for that key.
C15_PushReplacesInPlace ==
    (lastOp = "Push" /\ Contains(lastArg, pre) = "true") =>
        /\ ~panicked
        /\ Skeleton(root) = Skeleton(pre)
        /\ \E t \in Subtrees(pre) :
              /\ t.value # NilValue
              /\ compare(lastArg, t.value) = 0
              /\ ValueAt(root, t.addr) = lastArg
              /\ \A u \in Subtrees(pre) :
                    u.addr # t.addr => ValueAt(root, u.addr) = u.value
        /\ \E i \in DOMAIN Slice(root) : Slice(root)[i] = lastArg
        /\ \A i \in DOMAIN Slice(root) :
              (Slice(root)[i] # NilValue /\ compare(Slice(root)[i], lastArg) = 0)
                  => Slice(root)[i] = lastArg

\* A Push with the key comparator found, below the root of a tree of at
\* least three nodes, a stored value with the same key and another payload.
C15_Witness ==
    /\ comparator = "compareKey"
    /\ lastOp = "Push"
    /\ ~panicked
    /\ Contains(lastArg, pre) = "true"
    /\ lastArg \notin ValuesOf(pre)
    /\ lastArg \in ValuesOf(root)
    /\ compare(lastArg, pre.value) # 0
    /\ lengthRecursive(pre) >= 3

\* The smallest and the largest element of the non-empty finite set S of
\* ints.
SetMin(S) == CHOOSE x \in S : \A y \in S : x <= y
SetMax(S) == CHOOSE x \in S : \A y \in S : x >= y

\* C16: in every state reached by Push and Remove, Min() is the smallest
\* and Max() the largest value in the set, and both are nil on an empty set.
C16_MinMax ==
    ~panicked =>
        /\ Min(root) = (IF M = {} THEN NilValue ELSE SetMin(M))
        /\ Max(root) = (IF M = {} THEN NilValue ELSE SetMax(M))

\* C17: IsEmpty() is true exactly when the set holds no value, and then
\* Len() is 0.
C17_IsEmptyIffNoValues ==
    ~panicked =>
        /\ IsEmpty(root) <=> (M = {})
        /\ (M = {}) => SortedSetLen(root) = 0

\* C18: no call fails fatally: no Push or Remove panics, and in every
\* reachable state Contains(v) returns for every v.
C18_NoFatalFailure ==
    /\ ~panicked
    /\ \A v \in Values : Contains(v, root) # "panic"

\* The tree n without its addresses: its shape, the value at every
\* position and the cached height and size of every node.
RECURSIVE Shape(_)
Shape(n) ==
    IF n = Nil THEN Nil
    ELSE [value |-> n.value, h |-> n.h, len |-> n.len,
          left |-> Shape(n.left), right |-> Shape(n.right)]

\* The addresses of the nodes reachable from n.
AddrSet(n) == {t.addr : t \in Subtrees(n)}

\* C19: right after Clone() the clone has the shape of the original, the
\* same value at every position and the same cached height and size at every
\* node, and the original is as it was; the clone of an empty set is empty.
C19_CloneIdentical ==
    lastOp = "Clone" =>
        /\ Shape(clone) = Shape(root)
        /\ Shape(root) = Shape(pre)
        /\ Slice(clone) = Slice(root)
        /\ SortedSetLen(clone) = SortedSetLen(root)
        /\ (root = Nil) => (clone = Nil)

\* Clone() was called on a set whose root has two children.
C19_Witness ==
    /\ lastOp = "Clone"
    /\ root # Nil
    /\ root.left # Nil
    /\ root.right # Nil
    /\ clone # Nil

\* The calls on the original, and those on the clone.
OriginalOps == {"Push", "Remove", "RemoveAll"}
CloneOps == {"ClonePush", "CloneRemove", "CloneRemoveAll"}

\* C20: a clone shares no node with its original (no address is reachable
\* from both roots, before and after every call), every Push, Remove and
\* RemoveAll on the clone leaves the original's Slice(), Len() and tree
\* unchanged, and every such call on the original leaves the clone
\* unchanged.  A node reachable from both roots would be written through
\* either set, so the frame rests on the addresses being disjoint.
C20_CloneIndependent ==
    [][/\ hasClone' => AddrSet(root') \cap AddrSet(clone') = {}
       /\ lastOp' \in CloneOps =>
             /\ Shape(root') = Shape(root)
             /\ Slice(root') = Slice(root)
             /\ SortedSetLen(root') = SortedSetLen(root)
       /\ (hasClone /\ lastOp' \in OriginalOps) =>
             /\ Shape(clone') = Shape(clone)
             /\ Slice(clone') = Slice(clone)
             /\ SortedSetLen(clone') = SortedSetLen(clone)]_vars

\* A Remove on the clone returned true while the original, which has two
\* nodes or more, kept what the clone lost.
C20_Witness ==
    /\ hasClone
    /\ lastOp = "CloneRemove"
    /\ ret = "true"
    /\ lengthRecursive(root) >= 2
    /\ Shape(root) # Shape(clone)
    /\ lastArg \in ValuesOf(root)

\* C21: for every set reached by Push and Remove, NewBySlice(s.Slice())
\* returns a set whose Slice() is s.Slice().
C21_SliceRoundTrip ==
    ~panicked =>
        LET r == NewBySlice(Slice(root))
        IN  /\ ~r.panic
            /\ Slice(r.n) = Slice(root)

\* The calls Do must make for the values of seq and k procedures: for each
\* value in turn, procedure 1 to procedure k.
RECURSIVE CallsInOrder(_, _)
CallsInOrder(seq, k) ==
    IF seq = <<>> THEN <<>>
    ELSE procedureCalls(Head(seq), 1, k) \o CallsInOrder(Tail(seq), k)

\* C22: Do(p1, ..., pk) calls, for each value of the set in ascending
\* order, p1 to pk in that order, once each, and nothing else; with no
\* procedure or on an empty set it calls nothing.
C22_DoInOrder ==
    ~panicked =>
        \A k \in 0..MaxProcs :
            /\ Do(root, k) = CallsInOrder(SortedSeq(M), k)
            /\ (k = 0 \/ M = {}) => Do(root, k) = <<>>

\* The values of seq printed one after the other with a single space
\* between two of them.
RECURSIVE Joined(_)
Joined(seq) ==
    IF seq = <<>> THEN <<>>
    ELSE IF Len(seq) = 1 THEN Sprintf(seq[1])
    ELSE Sprintf(Head(seq)) \o <<" ">> \o Joined(Tail(seq))

\* C25: String() is "[]" for an empty set and otherwise "[", the stored
\* values in ascending order with exactly one space between two of them, and
\* "]", with no space before the "]" and Len() values printed.
C25_StringFormat ==
    ~panicked =>
        /\ String(root) = <<"[">> \o Joined(SortedSeq(M)) \o <<"]">>
        /\ String(root) = <<"[">> \o Joined(Slice(root)) \o <<"]">>
        /\ Len(Slice(root)) = SortedSetLen(root)

\* C24: after RemoveAll() on any reachable set IsEmpty() is true, Len() is
\* 0, Slice() is empty and Min() and Max() return nil; a Push(v) that follows
\* returns and leaves a set of the one value v: one leaf of height 1 and
\* size 1, found by Contains, returned by Min, Max and Slice.
C24_RemoveAllThenPush ==
    [][/\ lastOp' = "RemoveAll" =>
             /\ ~panicked'
             /\ IsEmpty(root')
             /\ SortedSetLen(root') = 0
             /\ Slice(root') = <<>>
             /\ Min(root') = NilValue
             /\ Max(root') = NilValue
       /\ (lastOp = "RemoveAll" /\ lastOp' = "Push") =>
             /\ ~panicked'
             /\ ~IsEmpty(root')
             /\ SortedSetLen(root') = 1
             /\ Slice(root') = <<lastArg'>>
             /\ Min(root') = lastArg'
             /\ Max(root') = lastArg'
             /\ Contains(lastArg', root') = "true"
             /\ heightRecursive(root') = 1
             /\ root'.h = 1
             /\ root'.len = 1]_vars

\* RemoveAll() was called on a set of three nodes or more, one of them a
\* cleared node that Remove left behind.
C24_Witness ==
    /\ lastOp = "RemoveAll"
    /\ lengthRecursive(pre) >= 3
    /\ NilValue \in ValuesOf(pre)
    /\ root = Nil

\* The methods that only read the set.
QueryOps ==
    {"Contains", "Min", "Max", "Len", "IsEmpty", "Slice", "String", "Clone",
     "Do"}

IteratorStays ==
    /\ it'.prev = it.prev
    /\ it'.this = it.this
    /\ it'.index = it.index
    /\ heap' = heap
    /\ coll' = coll

\* C26 as stated: Next returns a value only when the call made on the
\* iterator just before it was a HasNext that returned true; when that call
\* was not HasNext it returns (nil, ErrorIteratorNext), when it was a HasNext
\* that returned false (nil, ErrorIteratorHasNext), and in both error cases
\* the iterator's position and the container are unchanged.
C26_NextAfterPrecedingCall ==
    [][lastOp' = "Next" =>
           /\ (~panicked' /\ ret'.err = "nil") =>
                  (lastOp = "HasNext" /\ ret = "true")
           /\ (lastOp # "HasNext") =>
                  /\ ~panicked'
                  /\ ret' = [v |-> NilValue, err |-> ErrorIteratorNext]
                  /\ IteratorStays
           /\ (lastOp = "HasNext" /\ ret = "false") =>
                  /\ ~panicked'
                  /\ ret' = [v |-> NilValue, err |-> ErrorIteratorHasNext]
                  /\ IteratorStays]_vars

\* C26 amended: the same, with "the call just before" replaced by the last
\* call on the iterator that was a HasNext or a Next or Remove that returned
\* no error (ForEach calls and Next and Remove calls that returned an error
\* do not count; with no such call Next returns ErrorIteratorNext).
C26_NextAfterLastProtocolCall ==
    [][lastOp' = "Next" =>
           /\ (~panicked' /\ ret'.err = "nil") =>
                  lastIterCall = [op |-> "HasNext", ok |-> TRUE]
           /\ (lastIterCall.op # "HasNext") =>
                  /\ ~panicked'
                  /\ ret' = [v |-> NilValue, err |-> ErrorIteratorNext]
                  /\ IteratorStays
           /\ (lastIterCall = [op |-> "HasNext", ok |-> FALSE]) =>
                  /\ ~panicked'
                  /\ ret' = [v |-> NilValue, err |-> ErrorIteratorHasNext]
                  /\ IteratorStays]_vars

\* Next returned ErrorIteratorNext on an iterator that had returned two
\* values or more and removed the last one.
C26_Witness ==
    /\ lastOp = "Next"
    /\ ~panicked
    /\ ret.err = ErrorIteratorNext
    /\ lastIterCall.op = "Remove"
    /\ Len(given) >= 2

\* C27: a Remove call that does not come right after a Next call (on a new
\* iterator, after HasNext, after another Remove) returns ErrorIteratorRemove
\* and removes nothing from the container.
C27_RemoveWithoutNext ==
    [][(lastOp' = "Remove" /\ lastOp # "Next") =>
           /\ ~panicked'
           /\ ret' = ErrorIteratorRemove
           /\ heap' = heap
           /\ coll' = coll]_vars

\* seq without the elements at the positions of the set idx.
RECURSIVE Without(_, _, _)
Without(seq, idx, i) ==
    IF i > Len(seq) THEN <<>>
    ELSE (IF i \in idx THEN <<>> ELSE <<seq[i]>>) \o Without(seq, idx, i + 1)

\* C28: with HasNext, Next and Remove called on the iterator of a queue or
\* stack, no call panics; the values Next has returned are the first
\* elements the container had at Iterator(), in its order, each once, and all
\* of them once HasNext returns false; the container holds, in their order,
\* the elements it had less those removed, and Len() is their number; a
\* Remove that succeeds removes the element the last Next returned and
\* nothing else, Len() decreasing by 1; the Next that follows returns the
\* element that followed the removed one.
C28_IterationWithRemove ==
    [][/\ ~panicked'
       /\ it' # NoIterator =>
             /\ Len(given') <= Len(orig')
             /\ given' = SubSeq(orig', 1, Len(given'))
             /\ removedIdx' \subseteq 1..Len(given')
             /\ containerSlice(heap', coll') = Without(orig', removedIdx', 1)
             /\ coll'.len = Len(orig') - Cardinality(removedIdx')
       /\ (lastOp' = "HasNext" /\ ret' = "false") => given' = orig'
       /\ (lastOp' = "HasNext" /\ ret' = "true") => Len(given') < Len(orig')
       /\ (lastOp' = "Next" /\ ret'.err = "nil") =>
             /\ Len(given') = Len(given) + 1
             /\ ret'.v = orig'[Len(given')]
             /\ coll' = coll
       /\ (lastOp' = "Remove" /\ ret' = "nil") =>
             /\ coll'.len = coll.len - 1
             /\ removedIdx' = removedIdx \cup {Len(given)}
             /\ Len(given) \notin removedIdx
             /\ given' = given]_vars

\* The iterator went through a container of three elements and removed two
\* of them, the first included; HasNext has just returned false.
C28_Witness ==
    /\ lastOp = "HasNext"
    /\ ret = "false"
    /\ Len(orig) = 3
    /\ given = orig
    /\ Cardinality(removedIdx) = 2
    /\ 1 \in removedIdx
    /\ coll.len = 1

\* e is one of the elements the list holds: following next from front
\* reaches it.
Belongs(E, l, e) == \E i \in 1 .. Len(ListElements(E, l)) :
                        ListElements(E, l)[i] = e

\* The elements of seq other than e, in the order of seq.
Others(seq, e) == SelectSeq(seq, LAMBDA x : x # e)

\* C29: a call MoveToFront(e) with e an element of the list returns true and
\* leaves e as Front(), the other elements behind it in the order they had,
\* and Len() as it was; a call MoveToBack(e) likewise leaves e as Back(), the
\* other elements before it in the order they had.
C29_MoveToFrontAndBack ==
    [][(/\ lastOp' \in {"MoveToFront", "MoveToBack"}
        /\ ~panicked'
        /\ Belongs(elems, list, lastArg'))
       => LET e      == lastArg'
              before == ListElements(elems, list)
              after  == ListElements(elems', list')
          IN  /\ ret' = TRUE
              /\ list'.len = list.len
              /\ IF lastOp' = "MoveToFront"
                 THEN Front(list') = e /\ after = <<e>> \o Others(before, e)
                 ELSE Back(list') = e /\ after = Others(before, e) \o <<e>>
      ]_vars

\* Every element-taking method refuses the element e, whatever its other
\* argument is.
Refused(E, l, e) ==
    /\ \A v \in Items :
           /\ ~PushAfter(E, l, v, e).panic
           /\ PushAfter(E, l, v, e).ret = NilPtr
           /\ ~PushBefore(E, l, v, e).panic
           /\ PushBefore(E, l, v, e).ret = NilPtr
    /\ \A e2 \in 0 .. Len(E) :
           /\ MoveAfter(E, l, e, e2).ret = FALSE
           /\ MoveAfter(E, l, e2, e).ret = FALSE
           /\ MoveBefore(E, l, e, e2).ret = FALSE
           /\ MoveBefore(E, l, e2, e).ret = FALSE
           /\ Swap(E, l, e, e2).ret = FALSE
           /\ Swap(E, l, e2, e).ret = FALSE
    /\ RemoveElement(E, l, e).ret.ok = FALSE

\* C30: after any sequence of calls that returned, Contains(e) is true
\* exactly of the elements reachable from the list's front, and PushAfter,
\* PushBefore, MoveAfter, MoveBefore, RemoveElement and Swap refuse every
\* element that is not.
C30_ContainsIffBelongs ==
    ~panicked =>
        \A e \in 1 .. Len(elems) :
            /\ ListContains(elems, e) <=> Belongs(elems, list, e)
            /\ ~Belongs(elems, list, e) => Refused(elems, list, e)

\* The load of h exceeds its load factor: the test Push makes before it
\* inserts.
Overloaded(h) == h.len * LoadFactorDen > h.cap * h.loadFactor

\* Some entry of h has the key key.
HasKey(h, key) == \E p \in 1 .. Len(Entries(h)) : Equals(Entries(h)[p].key, key)

\* C31: a call Push(key, v) with a key that is not nil, made when the number
\* of entries exceeds loadFactor times the capacity, returns true with the
\* capacity doubled exactly once; Get returns v for key and, for every other
\* key present before, the value it had; Len() is the previous count, plus
\* one when key was not present; and every node sits in the bucket indexed
\* by its hash code modulo the new capacity.
C31_PushReHashing ==
    [][(/\ lastOp' = "HashMap.Push"
        /\ lastArg'.key # Nil
        /\ Overloaded(hm))
       => /\ ~panicked'
          /\ ret' = TRUE
          /\ hm'.cap = 2 * hm.cap
          /\ Len(hm'.buckets) = hm'.cap
          /\ HashMapGet(hm', lastArg'.key).ret =
                 [v |-> lastArg'.v, ok |-> TRUE]
          /\ \A p \in 1 .. Len(Entries(hm)) :
                 LET n == Entries(hm)[p]
                 IN  ~Equals(n.key, lastArg'.key) =>
                         HashMapGet(hm', n.key).ret =
                             [v |-> n.value, ok |-> TRUE]
          /\ HashMapLen(hm') =
                 HashMapLen(hm) + (IF HasKey(hm, lastArg'.key) THEN 0 ELSE 1)
          /\ \A b \in 1 .. Len(hm'.buckets) :
                 \A p \in 1 .. Len(hm'.buckets[b]) :
                     /\ hm'.buckets[b][p].hashCode =
                            Hash(hm'.buckets[b][p].key)
                     /\ hm'.buckets[b][p].hashCode % hm'.cap = b - 1
      ]_vars

\* Every node of the tree n caches the height and the size counted from
\* its subtrees.
CachesCorrect(n) ==
    \A t \in Subtrees(n) :
        /\ t.h = 1 + maxInt(heightRecursive(t.left), heightRecursive(t.right))
        /\ t.len = 1 + lengthRecursive(t.left) + lengthRecursive(t.right)

\* Node t is node n (same address, same value) with the subtrees l and r
\* and with h and len recomputed from them.
Relinked(t, n, l, r) ==
    /\ t # Nil
    /\ t.addr = n.addr
    /\ t.value = n.value
    /\ t.left = l
    /\ t.right = r
    /\ t.h = 1 + maxInt(heightRecursive(l), heightRecursive(r))
    /\ t.len = 1 + lengthRecursive(l) + lengthRecursive(r)

\* C32: leftRotate(n), for n with a right child and children with correct
\* cached values, returns the node n.right with n as its left child, the
\* former n.right.left as n's right subtree, and n.left and n.right.right
\* where they were; the in-order sequence is the same; h and len of n and
\* of the new root are the values recomputed from their subtrees.
\* rightRotate(n) is the mirror image.
C32_Rotations ==
    /\ (/\ rot # NoRotation
        /\ rot.op = "leftRotate"
        /\ CachesCorrect(rot.n.left)
        /\ CachesCorrect(rot.n.right))
       => /\ Relinked(rot.root, rot.n.right, rot.root.left,
                      rot.n.right.right)
          /\ Relinked(rot.root.left, rot.n, rot.n.left, rot.n.right.left)
          /\ Slice(rot.root) = Slice(rot.n)
    /\ (/\ rot # NoRotation
        /\ rot.op = "rightRotate"
        /\ CachesCorrect(rot.n.left)
        /\ CachesCorrect(rot.n.right))
       => /\ Relinked(rot.root, rot.n.left, rot.n.left.left,
                      rot.root.right)
          /\ Relinked(rot.root.right, rot.n, rot.n.left.right, rot.n.right)
          /\ Slice(rot.root) = Slice(rot.n)

\* A left rotation that moves a subtree: n has both children and n.right
\* has a left child.
C32_Witness ==
    /\ rot # NoRotation
    /\ rot.op = "leftRotate"
    /\ CachesCorrect(rot.n.left)
    /\ CachesCorrect(rot.n.right)
    /\ rot.n.left # Nil
    /\ rot.n.right.left # Nil
    /\ rot.root.left.right = rot.n.right.left

\* The nodes the last call, a Push, found out of balance (see pushRecursive).
Rebalanced == pushRecursive(lastArg, pre).rebalanced

\* C33: in a Push of v, at every node n found with balance > 1 after the
\* recursive insert, compare(v, n.left.value) is not 0, is < 0 exactly when
\* balance(n.left) = 1 (left-left) and > 0 exactly when balance(n.left) = -1
\* (left-right); at every node found with balance < -1, compare(v,
\* n.right.value) is not 0, is > 0 exactly when balance(n.right) = -1
\* (right-right) and < 0 exactly when balance(n.right) = 1 (right-left).
C33_RotationCase ==
    lastOp = "Push" =>
        \A i \in 1 .. Len(Rebalanced) :
            LET n == Rebalanced[i].n
                v == lastArg
            IN  /\ balance(n) > 1 =>
                       /\ ~comparePanics(v, n.left.value)
                       /\ compare(v, n.left.value) # 0
                       /\ compare(v, n.left.value) < 0
                              <=> balance(n.left) = 1
                       /\ compare(v, n.left.value) > 0
                              <=> balance(n.left) = 0 - 1
                /\ balance(n) < 0 - 1 =>
                       /\ ~comparePanics(v, n.right.value)
                       /\ compare(v, n.right.value) # 0
                       /\ compare(v, n.right.value) > 0
                              <=> balance(n.right) = 0 - 1
                       /\ compare(v, n.right.value) < 0
                              <=> balance(n.right) = 1

\* A Push that found a node left-heavy by 2 and took the left-right case.
C33_Witness ==
    /\ lastOp = "Push"
    /\ ~panicked
    /\ \E i \in 1 .. Len(Rebalanced) :
           /\ balance(Rebalanced[i].n) > 1
           /\ compare(lastArg, Rebalanced[i].n.left.value) > 0

\* No node is reached twice by walking the tree n: every node is the child
\* of at most one node and on one side only.
NoNodeTwice(n) == Len(Addrs(n)) = Cardinality(AddrSet(n))

\* C34: in every state reachable by Push, Remove, Clone and RemoveAll, the
\* nodes reachable from the root of the set, and those reachable from the
\* root of its clone, form a tree (no node is reached twice: none has two
\* parents, none is both a left and a right child, none is its own
\* descendant), and no node is reachable from both roots.
C34_TreesOwnTheirNodes ==
    /\ NoNodeTwice(root)
    /\ NoNodeTwice(clone)
    /\ AddrSet(root) \cap AddrSet(clone) = {}

\* Both sets hold nodes, and the last Push on the original rotated.
C34_Witness ==
    /\ hasClone
    /\ ~panicked
    /\ lastOp = "Push"
    /\ Len(Rebalanced) > 0
    /\ clone # Nil
    /\ Cardinality(AddrSet(root)) >= 3

\* C35: a Push that returns found at most one node of the insertion path
\* out of balance; the subtree the rotation (single or double) returned has
\* the height the subtree had before the insertion; and the height of the
\* whole tree is at most 1 more than before the call.
C35_OneRebalancePerPush ==
    (lastOp = "Push" /\ ~panicked) =>
        /\ Len(Rebalanced) <= 1
        /\ \A i \in 1 .. Len(Rebalanced) :
               /\ height(Rebalanced[i].after) = height(Rebalanced[i].before)
               /\ heightRecursive(Rebalanced[i].after) =
                      heightRecursive(Rebalanced[i].before)
        /\ height(root) <= height(pre) + 1
        /\ heightRecursive(root) <= heightRecursive(pre) + 1

\* One call of the comparator: compare(v1, v2).  of tells where v1 comes
\* from: "v" is the argument of the method, "successor" the value
\* min(n.right).value that removeRecursive passes on (line 325).
CompareCall(v1, v2, of) == [v1 |-> v1, v2 |-> v2, of |-> of]

\* The calls of compare that containsRecursive(v, n) makes, in order; a
\* call that panics is the last one.
RECURSIVE containsCompares(_, _)
containsCompares(v, n) ==
    IF n = Nil THEN <<>>
    ELSE LET call1 == <<CompareCall(v, n.value, "v")>>
         IN  IF comparePanics(v, n.value) THEN call1
             ELSE IF compare(v, n.value) < 0
                  THEN call1 \o containsCompares(v, n.left)
             ELSE IF compare(v, n.value) > 0
                  THEN call1 \o containsCompares(v, n.right)
             ELSE call1

\* The calls of compare that pushRecursive(v, n) makes, in order: the one
\* of line 249 at every node of the path and, where the balance is found
\* above 1 or below -1, the one of line 262 or 270 on the child's value.
RECURSIVE pushCompares(_, _)
pushCompares(v, n) ==
    IF n = Nil THEN <<>>
    ELSE LET call1 == <<CompareCall(v, n.value, "v")>>
         IN  IF comparePanics(v, n.value) THEN call1
             ELSE IF compare(v, n.value) = 0 THEN call1
             ELSE LET left == compare(v, n.value) < 0
                      r == pushRecursive(v, IF left THEN n.left ELSE n.right)
                      n1 == update(IF left THEN [n EXCEPT !.left = r.n]
                                           ELSE [n EXCEPT !.right = r.n])
                      below == pushCompares(v, IF left THEN n.left
                                                      ELSE n.right)
                  IN  IF r.panic THEN call1 \o below
                      ELSE IF balance(n1) > 1
                      THEN call1 \o below
                               \o <<CompareCall(v, n1.left.value, "v")>>
                      ELSE IF balance(n1) < -1
                      THEN call1 \o below
                               \o <<CompareCall(v, n1.right.value, "v")>>
                      ELSE call1 \o below

\* The calls of compare that removeRecursive(v, n) makes, in order: the one
\* of line 304 at every node of the path and, below a matching node with
\* two children, those of the removal of the successor value.
RECURSIVE removeCompares(_, _, _)
removeCompares(v, n, of) ==
    IF n = Nil THEN <<>>
    ELSE LET call1 == <<CompareCall(v, n.value, of)>>
         IN  IF comparePanics(v, n.value) THEN call1
             ELSE IF compare(v, n.value) < 0
                  THEN call1 \o removeCompares(v, n.left, of)
             ELSE IF compare(v, n.value) > 0
                  THEN call1 \o removeCompares(v, n.right, of)
             ELSE IF n.left = Nil \/ n.right = Nil THEN call1
             ELSE call1 \o removeCompares(min(n.right).value, n.right,
                                          "successor")

\* The calls of compare that the call of method op with argument v makes
\* on the set s.
Compares(op, v, s) ==
    IF op = "Push" THEN pushCompares(v, s)
    ELSE IF op = "Remove" THEN removeCompares(v, s, "v")
    ELSE IF op = "Contains" THEN containsCompares(v, s)
    ELSE <<>>

\* C36: in every Push, Remove and Contains call, every call of the
\* comparator has as call1 argument the argument v of the call or, inside
\* Remove, the successor value, which is a stored value; its second argument
\* is a value that is stored in the set when the call starts; and neither
\* is the nil value of a cleared node.
C36_ComparatorOnStoredValues ==
    [][LET calls == Compares(lastOp', lastArg', root)
       IN  \A i \in 1 .. Len(calls) :
               /\ calls[i].v1 # NilValue
               /\ calls[i].v2 # NilValue
               /\ calls[i].v2 \in M
               /\ calls[i].of = "v" => calls[i].v1 = lastArg'
               /\ calls[i].of = "successor" =>
                      lastOp' = "Remove" /\ calls[i].v1 \in M]_vars

\* The values of the elements of the list l, front first.
ListValues(E, l) ==
    LET es == ListElements(E, l)
    IN  [i \in 1 .. Len(es) |-> E[es[i]].value]

\* C37: every call of PushBackList(other) and of PushFrontList(other)
\* returns, also when other is the receiver itself, and then the receiver
\* holds its previous values followed (PushBackList) or preceded
\* (PushFrontList) by the values other held when the call started.
C37_PushListTerminates ==
    [][lastOp' \in {"PushBackList", "PushFrontList"} =>
           LET mine == ListValues(elems, list)
               theirs == IF ListArg(lastArg') = Nil THEN <<>>
                         ELSE ListValues(elems, ListArg(lastArg'))
           IN  /\ ~panicked'
               /\ ret' = "none"
               /\ ListValues(elems', list') =
                      (IF lastOp' = "PushBackList" THEN mine \o theirs
                                                   ELSE theirs \o mine)]_vars

\* The nodes met from node n on by following next, at most fuel of them.
RECURSIVE nodesReachable(_, _, _)
nodesReachable(h, n, fuel) ==
    IF n = NilPtr \/ fuel = 0 THEN <<>>
    ELSE <<n>> \o nodesReachable(h, h[n].next, fuel - 1)

\* The links of the queue q are consistent.
LinksConsistent(h, q) ==
    LET nodes == nodesReachable(h, q.front, Len(h) + 1)
    IN  /\ q.len = Len(nodes)
        /\ (q.front = NilPtr) <=> (q.len = 0)
        /\ (q.back = NilPtr) <=> (q.len = 0)
        /\ q.len # 0 =>
               /\ q.back = nodes[Len(nodes)]
               /\ h[q.back].next = NilPtr

\* Push puts v behind the values held and Get takes the value in front.
FifoStep ==
    LET held == valuesFrom(heap, coll.front)
    IN  /\ lastOp' = "Push" =>
               valuesFrom(heap', coll'.front) = Append(held, lastArg')
        /\ (lastOp' = "Get" /\ coll.len # 0) =>
               /\ ret' = [v |-> Head(held)]
               /\ valuesFrom(heap', coll'.front) = Tail(held)

\* C38: after every sequence of Push, Get, GetIf, Do, RemoveAll and
\* iterator Remove calls the queue's links are consistent (len is the
\* number of nodes reachable from front; front is nil exactly when back is
\* nil exactly when len is 0; otherwise back is the last node reachable
\* from front), and Get returns the values in the order of their pushes.
C38_QueueLinksConsistent ==
    /\ [](~panicked => LinksConsistent(heap, coll))
    /\ [][~panicked' => FifoStep]_vars

=============================================================================
